---------------------------- MODULE Spec2Model ----------------------------
(***************************************************************************)
(* Model of the incremental synchronisation engine of the ServiceNow       *)
(* extractor: UserExtractor (src/extractors/user_extractor.py),            *)
(* CompanyExtractor (src/src/extractors/company_extractor.py), the shared  *)
(* BaseServiceNowExtractor (src/extractors/base_extractor.py),             *)
(* flatten_reference_fields (src/config.py) and the upsert of              *)
(* DatabaseManager (src/database_manager.py).                              *)
(*                                                                         *)
(* A Python dict is a sequence of [k, v] entries with distinct keys, in    *)
(* insertion order.  A Python value is a record [ty, s, n]: its type, its  *)
(* text and its number, so that True, "true", "1" and 1 are four values.   *)
(* Wall-clock instants are counted in ticks (TicksPerSec ticks a second);  *)
(* a formatted timestamp ("%Y-%m-%d %H:%M:%S") is a number of whole        *)
(* seconds.                                                                *)
(***************************************************************************)
EXTENDS Integers, Sequences, FiniteSets, TLC

VARIABLES
    kind,      \* the extractor under run: "user" (UserExtractor) or "company"
    now,       \* the wall clock, in ticks
    ticks,     \* how many times the clock has been advanced
    source,    \* the remote table of the kind: sys_id -> remote record
    updates,   \* how many remote updates have happened
    db,        \* the reference table of the kind: sys_id -> row or NoRow
    ret,       \* what the last call of the extractor did and returned
    rec1,      \* hasher runs: a fetched record
    rec2,      \* hasher runs: a second fetched record, a variation of rec1
    edits,     \* hasher runs: how many variations were applied to rec2
    tag1,      \* hasher runs: the result of tagging rec1
    tag2,      \* hasher runs: the result of tagging rec2
    arg1,      \* hasher runs: the dict that held rec1, as its caller sees it
    arg2,      \* hasher runs: the dict that held rec2, as its caller sees it
    incident,  \* the incident table of the store: its reference columns
    json_table \* the table servicenow_data_json of the store

vars == <<kind, now, ticks, source, updates, db, ret, rec1, rec2, edits, tag1, tag2,
          arg1, arg2, incident, json_table>>

----------------------------------------------------------------------------
(* Bounds of the model *)

\* ticks in one second: the resolution datetime.now() has below strftime's
TicksPerSec == 2
\* how many times the clock advances in one run
MaxTicks == 1
\* how many remote updates happen in one run
MaxUpdates == 1
\* the page size handed to paginated_request
PageLimit == 1
\* how many variations a hasher run applies to the second record
MaxEdits == 2

(* Program constants *)

UserMarginHours == 1
CompanyMarginHours == 2
UserLookbackDays == 7
CompanyLookbackDays == 30
InactiveCutoffDays == 30

SecsPerHour == 60 * 60
SecsPerDay == 24 * SecsPerHour

Kinds == {"user", "company"}

----------------------------------------------------------------------------
(* Python values *)

Str(s) == [ty |-> "str", s |-> s, n |-> 0]
BoolV(b) == [ty |-> "bool", s |-> IF b THEN "True" ELSE "False", n |-> 0]
IntV(i) == [ty |-> "int", s |-> "", n |-> i]
\* a reference field as the API returns it: a dict holding the key "value"
Ref(s) == [ty |-> "ref", s |-> s, n |-> 0]
\* a timestamp text "YYYY-MM-DD HH:MM:SS", as whole seconds
TsStr(secs) == [ty |-> "str", s |-> "ts", n |-> secs]
\* a datetime object, in ticks
DateTime(t) == [ty |-> "datetime", s |-> "", n |-> t]
\* hashlib.md5(text).hexdigest(): a digest of the text, taken to be
\* collision-free
Md5(text) == [ty |-> "md5", s |-> "", n |-> 0, of |-> text]
NoneV == [ty |-> "none", s |-> "", n |-> 0]

\* datetime.strftime("%Y-%m-%d %H:%M:%S"): drops what is below one second
Strftime(t) == t \div TicksPerSec

----------------------------------------------------------------------------
(* Python dicts *)

Keys(d) == {d[i].k : i \in 1..Len(d)}
HasKey(d, key) == \E i \in 1..Len(d) : d[i].k = key
Get(d, key) == IF HasKey(d, key)
               THEN d[CHOOSE i \in 1..Len(d) : d[i].k = key].v
               ELSE NoneV
\* d[key] = val: in place when the key is there, appended when it is not
SetKey(d, key, val) ==
    IF HasKey(d, key)
    THEN [i \in 1..Len(d) |-> IF d[i].k = key THEN [k |-> key, v |-> val] ELSE d[i]]
    ELSE Append(d, [k |-> key, v |-> val])
Items(d) == {d[i] : i \in 1..Len(d)}


----------------------------------------------------------------------------
(* flatten_reference_fields and process_data *)

\* f"dv_{key}"
DvKey(key) == "dv_" \o key

\* one turn of the loop of flatten_reference_fields, over the keys the dict
\* had when the loop began
RECURSIVE FlattenFrom(_, _, _)
FlattenFrom(data, keys, i) ==
    IF i > Len(keys) THEN data
    ELSE LET value == Get(data, keys[i])
         IN  IF value.ty = "ref"
             THEN FlattenFrom(SetKey(SetKey(data, keys[i], Str(value.s)),
                                     DvKey(keys[i]), Str("")),
                              keys, i + 1)
             ELSE FlattenFrom(data, keys, i + 1)

flatten_reference_fields(data) ==
    FlattenFrom(data, [i \in 1..Len(data) |-> data[i].k], 1)

\* process_data: the empty items are skipped, the others flattened
RECURSIVE process_data(_)
process_data(data) ==
    IF data = <<>> THEN <<>>
    ELSE IF Head(data) = <<>> THEN process_data(Tail(data))
    ELSE <<flatten_reference_fields(Head(data))>> \o process_data(Tail(data))

----------------------------------------------------------------------------
(* The Entity Hasher: _process_and_hash_users, _process_and_hash_companies *)

\* the keys of the model, in the order Python compares strings
KeyOrder == <<"active", "company", "customer",
              "dv_active", "dv_company", "dv_customer", "dv_name", "dv_parent",
              "dv_sys_created_on", "dv_sys_id", "dv_sys_updated_on",
              "etl_created_at", "etl_hash", "etl_updated_at",
              "manufacturer", "name", "parent",
              "sys_created_on", "sys_id", "sys_updated_on", "vendor">>
KeyRank(key) == CHOOSE i \in 1..Len(KeyOrder) : KeyOrder[i] = key

\* k.startswith("etl_")
StartsWithEtl(key) == key \in {"etl_created_at", "etl_updated_at", "etl_hash"}

\* a plausible slip: only the ETL keys are left out of the hash
HashDataKeepingAudit(processed) ==
    SelectSeq(processed, LAMBDA e : ~StartsWithEtl(e.k))

\* hash_data: every entry but the etl_* ones and the two audit timestamps
HashData(processed) ==
    SelectSeq(processed, LAMBDA e : ~StartsWithEtl(e.k)
                                    /\ e.k \notin {"sys_created_on", "sys_updated_on"})

\* sorted(items): by key, the keys of a dict being distinct
RECURSIVE SortedItems(_)
SortedItems(items) ==
    IF items = <<>> THEN <<>>
    ELSE LET m == CHOOSE i \in 1..Len(items) :
                      \A j \in 1..Len(items) : KeyRank(items[i].k) <= KeyRank(items[j].k)
         IN  <<items[m]>> \o SortedItems(SubSeq(items, 1, m - 1)
                                         \o SubSeq(items, m + 1, Len(items)))

\* a plausible slip: the items are hashed in the order the dict holds them
DataStringUnsorted(hash_data) == hash_data

\* str(sorted(hash_data.items())): the text lists the sorted (key, repr(value))
\* pairs, and repr tells True, 'true', '1' and 1 apart
DataString(hash_data) == SortedItems(hash_data)

BoolFields == <<"customer", "vendor", "manufacturer", "active">>

\* value in [True, "true", "1"], with Python's 1 == True
InTrueList(value) == value \in {BoolV(TRUE), Str("true"), Str("1"), IntV(1)}

RECURSIVE NormalizeFrom(_, _)
NormalizeFrom(processed, i) ==
    IF i > Len(BoolFields) THEN processed
    ELSE IF HasKey(processed, BoolFields[i])
         THEN NormalizeFrom(
                  SetKey(processed, BoolFields[i],
                         IF InTrueList(Get(processed, BoolFields[i]))
                         THEN IntV(1) ELSE IntV(0)),
                  i + 1)
         ELSE NormalizeFrom(processed, i + 1)

\* a plausible slip: the boolean fields are hashed as they were fetched
NormalizeBoolsSkipped(k, processed) == processed

\* the boolean conversion of _process_and_hash_companies; users have none
NormalizeBools(k, processed) ==
    IF k = "company" THEN NormalizeFrom(processed, 1) ELSE processed

\* whether process_data([record])[0] raises IndexError
TagRaises(record) == process_data(<<record>>) = <<>>

\* one turn of the loop of _process_and_hash_*: the record tagged at instant t
ProcessAndHashOne(k, record, t) ==
    LET flat    == process_data(<<record>>)[1]
        normal  == NormalizeBools(k, flat)
        stamped == SetKey(SetKey(normal, "etl_created_at", DateTime(t)),
                          "etl_updated_at", DateTime(t))
    IN  SetKey(stamped, "etl_hash", Md5(DataString(HashData(stamped))))

\* _process_and_hash_users / _process_and_hash_companies on a list
ProcessAndHash(k, records, t) ==
    [i \in 1..Len(records) |-> ProcessAndHashOne(k, records[i], t)]

\* the dict a record came in, as its caller sees it after the pass:
\* flatten_reference_fields assigns into its argument and returns it, and
\* process_data appends what it returns, so processed_user is the caller's
\* dict and every assignment of the pass is made in it
ArgAfter(k, record, t) == ProcessAndHashOne(k, record, t)

----------------------------------------------------------------------------
(* Runs of the Entity Hasher alone: a fetched record rec1, a variation rec2 *)
(* of it, and one tagging pass over each                                    *)

\* the instant the runs begin at: day 100
T0 == 100 * SecsPerDay * TicksPerSec

Entry(key, val) == [k |-> key, v |-> val]

\* a record of the kind as the API returns it, in the order of sysparm_fields
ApiRecord(k, id, name, ref, active, updated) ==
    IF k = "user"
    THEN <<Entry("sys_id", Str(id)), Entry("name", Str(name)),
           Entry("company", ref), Entry("active", active),
           Entry("sys_updated_on", TsStr(updated))>>
    ELSE <<Entry("sys_id", Str(id)), Entry("name", Str(name)),
           Entry("parent", ref), Entry("customer", Str("true")),
           Entry("active", active), Entry("sys_updated_on", TsStr(updated))>>

HashInputs(k) ==
    {ApiRecord(k, "a", "Foo", ref, active, Strftime(T0)) :
        ref \in {Ref("c1"), Str("")}, active \in {Str("true"), Str("false")}}

\* what a variation may set a field to
FieldEdits ==
    {Entry("name", Str("Bar")),
     Entry("active", BoolV(TRUE)), Entry("active", Str("true")),
     Entry("active", Str("1")), Entry("active", Str("false")),
     Entry("customer", BoolV(TRUE)), Entry("customer", Str("1")),
     Entry("sys_updated_on", TsStr(Strftime(T0) + 1)),
     Entry("sys_created_on", TsStr(Strftime(T0) - 1)),
     Entry("etl_created_at", DateTime(T0 - 1)),
     Entry("etl_updated_at", DateTime(T0 - 1)),
     Entry("etl_hash", Str("stale"))}

\* the gaps between the two tagging passes
TagGaps == {0, 1, SecsPerHour * TicksPerSec}

Untagged == <<>>

NoCall == [op |-> "none"]

HashInit ==
    /\ kind \in Kinds
    /\ now = T0
    /\ ticks = 0
    /\ source = <<>>
    /\ updates = 0
    /\ db = <<>>
    /\ ret = NoCall
    /\ rec1 \in HashInputs(kind)
    /\ rec2 = rec1
    /\ edits = 0
    /\ tag1 = Untagged
    /\ tag2 = Untagged
    /\ arg1 = <<>>
    /\ arg2 = <<>>
    /\ incident = <<>>
    /\ json_table = <<>>

\* the second record comes with two neighbouring fields in the other order
SwapFields ==
    /\ tag1 = Untagged
    /\ edits < MaxEdits
    /\ \E i \in 1..(Len(rec2) - 1) :
          rec2' = [rec2 EXCEPT ![i] = rec2[i + 1], ![i + 1] = rec2[i]]
    /\ edits' = edits + 1
    /\ UNCHANGED <<kind, now, ticks, source, updates, db, ret, rec1, tag1, tag2,
                 arg1, arg2, incident, json_table>>

\* the second record comes with another value in one field
EditField ==
    /\ tag1 = Untagged
    /\ edits < MaxEdits
    /\ \E e \in FieldEdits :
          /\ kind = "user" => e.k # "customer"
          /\ rec2' = SetKey(rec2, e.k, e.v)
    /\ edits' = edits + 1
    /\ UNCHANGED <<kind, now, ticks, source, updates, db, ret, rec1, tag1, tag2,
                 arg1, arg2, incident, json_table>>

\* one tagging pass over rec1, then, gap ticks later, one over rec2; rec1 and
\* rec2 keep the records as they were fetched, arg1 and arg2 are the dicts
\* that were handed to the pass
TagBoth ==
    /\ tag1 = Untagged
    /\ \E gap \in TagGaps :
          /\ now' = now + gap
          /\ tag1' = ProcessAndHash(kind, <<rec1>>, now)[1]
          /\ tag2' = ProcessAndHash(kind, <<rec2>>, now + gap)[1]
          /\ arg1' = ArgAfter(kind, rec1, now)
          /\ arg2' = ArgAfter(kind, rec2, now + gap)
    /\ UNCHANGED <<kind, ticks, source, updates, db, ret, rec1, rec2, edits,
                   incident, json_table>>

HashNext == SwapFields \/ EditField \/ TagBoth

SpecHash == HashInit /\ [][HashNext]_vars

Tagged == tag1 # Untagged

EtlHash(record) == Get(record, "etl_hash")

\* the entries of a record outside the bookkeeping and audit keys, in order
Business(record) ==
    SelectSeq(record, LAMBDA e : e.k \notin {"etl_created_at", "etl_updated_at",
                                             "etl_hash", "sys_created_on",
                                             "sys_updated_on"})

\* C6: the etl_hash does not depend on the order of the fields: two records
\* with the same (field, value) pairs outside the bookkeeping and audit keys
\* get the same etl_hash, whatever the order the fields come in.
C6_OrderIndependent ==
    (Tagged /\ Items(Business(rec1)) = Items(Business(rec2)))
        => EtlHash(tag1) = EtlHash(tag2)

\* a permutation that moves a hashed field has been tagged
C6_Witness ==
    /\ Tagged
    /\ Items(rec1) = Items(rec2)
    /\ Business(rec1) # Business(rec2)

\* C7: two records that differ only in etl_created_at, etl_updated_at,
\* etl_hash, sys_created_on or sys_updated_on get the same etl_hash, and so
\* do two tagging passes over one record at different instants.
C7_BookkeepingExcluded ==
    /\ (Tagged /\ Business(rec1) = Business(rec2))
          => EtlHash(tag1) = EtlHash(tag2)
    /\ Tagged => \A i \in 1..Len(EtlHash(tag2).of) :
                    EtlHash(tag2).of[i].k \in Keys(Business(tag2))

\* the two records differ in an audit timestamp and were tagged at
\* different instants
C7_Witness ==
    /\ Tagged
    /\ Business(rec1) = Business(rec2)
    /\ Get(rec1, "sys_updated_on") # Get(rec2, "sys_updated_on")
    /\ Get(tag1, "etl_updated_at") # Get(tag2, "etl_updated_at")

TrueLike == {BoolV(TRUE), Str("true"), Str("1")}

\* the two records are the same but for the way a boolean field says true
SameButBoolRepr(a, b) ==
    /\ Len(a) = Len(b)
    /\ \A i \in 1..Len(a) :
          /\ a[i].k = b[i].k
          /\ \/ a[i].v = b[i].v
             \/ /\ \E j \in 1..Len(BoolFields) : BoolFields[j] = a[i].k
                /\ a[i].v \in TrueLike
                /\ b[i].v \in TrueLike

\* C8: company records that differ only in how a boolean field (customer,
\* vendor, manufacturer, active) writes true (True, "true", "1") get the same
\* etl_hash: the fields are normalised before the hash is taken.
C8_BoolNormalizedBeforeHash ==
    (kind = "company" /\ Tagged /\ SameButBoolRepr(rec1, rec2))
        => /\ EtlHash(tag1) = EtlHash(tag2)
           /\ \A j \in 1..Len(BoolFields) :
                 Get(tag2, BoolFields[j]) \in {NoneV, IntV(0), IntV(1)}

\* two company records that write true differently have been tagged
C8_Witness ==
    /\ kind = "company"
    /\ Tagged
    /\ SameButBoolRepr(rec1, rec2)
    /\ rec1 # rec2

----------------------------------------------------------------------------
(* The remote table and the paginated fetch *)

\* the sys_ids of the remote table, in the order the API lists its rows
IdSeq == <<"a", "b">>
Ids == {IdSeq[i] : i \in 1..Len(IdSeq)}

Min(x, y) == IF x <= y THEN x ELSE y

\* the remote record of id as the API returns it
Fetched(k, src, id) ==
    ApiRecord(k, id, src[id].name, Ref("c1"),
              Str(IF src[id].active THEN "true" ELSE "false"), src[id].upd)

\* the rows of the remote table whose sys_id a sysparm_query selects, in
\* the order of the API
RECURSIVE QueryFrom(_, _, _, _)
QueryFrom(k, src, selected, i) ==
    IF i > Len(IdSeq) THEN <<>>
    ELSE (IF IdSeq[i] \in selected THEN <<Fetched(k, src, IdSeq[i])>> ELSE <<>>)
         \o QueryFrom(k, src, selected, i + 1)

\* "active=true"
QueryActive(k, src) ==
    QueryFrom(k, src, {id \in Ids : src[id].active}, 1)
\* "active=false^sys_updated_on>={cutoff_date}"
QueryInactiveSince(k, src, cutoff) ==
    QueryFrom(k, src, {id \in Ids : ~src[id].active /\ src[id].upd >= cutoff}, 1)
\* "sys_updated_on>={last_sync_date}"
QueryUpdatedSince(k, src, since) ==
    QueryFrom(k, src, {id \in Ids : src[id].upd >= since}, 1)

\* make_request for the page at offset: the page of the rows the query
\* selects, or, when the transport fails, the empty list (the
\* RequestException is caught and [] returned)
make_request(rows, limit, offset, fails) ==
    IF fails THEN <<>>
    ELSE SubSeq(rows, offset + 1, Min(offset + limit, Len(rows)))

\* paginated_request: the loop over the pages; the request number failAt
\* fails (0: none does)
RECURSIVE PageLoop(_, _, _, _, _, _)
PageLoop(rows, limit, offset, failAt, page, all_data) ==
    LET result_page == make_request(rows, limit, offset, page = failAt)
    IN  IF result_page = <<>> THEN all_data
        ELSE PageLoop(rows, limit, offset + limit, failAt, page + 1,
                      all_data \o result_page)

paginated_request(rows, limit, failAt) == PageLoop(rows, limit, 0, failAt, 1, <<>>)

\* the number of requests a fetch of the rows issues when none fails
Requests(rows, limit) == ((Len(rows) + limit - 1) \div limit) + 1

\* the requests of a fetch that may fail: none (0), or one of those issued
FailPoints(rows, limit) == 0..Requests(rows, limit)

----------------------------------------------------------------------------
(* The reference table *)

\* cursor.fetchone() of a point lookup that finds no row
NoRow == [present |-> FALSE]
\* a plausible slip: the row is written without its etl_hash
RowWithoutHash(hash, updated_at) ==
    [present |-> TRUE, etl_hash |-> NoneV, etl_updated_at |-> updated_at]

Row(hash, updated_at) ==
    [present |-> TRUE, etl_hash |-> hash, etl_updated_at |-> updated_at]

EmptyTable == [id \in Ids |-> NoRow]

Max(x, y) == IF x >= y THEN x ELSE y

\* SELECT MAX(etl_updated_at) FROM <table>: -1 stands for NULL
RECURSIVE MaxFrom(_, _)
MaxFrom(table, i) ==
    IF i > Len(IdSeq) THEN -1
    ELSE Max(IF table[IdSeq[i]].present THEN table[IdSeq[i]].etl_updated_at ELSE -1,
             MaxFrom(table, i + 1))
MaxUpdatedAt(table) == MaxFrom(table, 1)

----------------------------------------------------------------------------
(* The SyncWatermark: _get_last_sync_date *)

TicksPerHour == SecsPerHour * TicksPerSec
TicksPerDay == SecsPerDay * TicksPerSec

\* a plausible slip: the company extractor keeps the users' one hour
SafetyMarginOneHour(k) == UserMarginHours * TicksPerHour

\* timedelta(hours=1) for users, timedelta(hours=2) for companies
SafetyMargin(k) ==
    (IF k = "user" THEN UserMarginHours ELSE CompanyMarginHours) * TicksPerHour

\* a plausible slip: the company extractor keeps the users' seven days
DefaultLookbackSevenDays(k) == UserLookbackDays * TicksPerDay

\* timedelta(days=7) for users, timedelta(days=30) for companies
DefaultLookback(k) ==
    (IF k = "user" THEN UserLookbackDays ELSE CompanyLookbackDays) * TicksPerDay

\* _get_last_sync_date at instant t; lookupFails: get_db_connection or the
\* query raises, which the except clause swallows
get_last_sync_date(k, table, t, lookupFails) ==
    LET default_date == Strftime(t - DefaultLookback(k))
        result       == MaxUpdatedAt(table)
    IN  IF ~lookupFails /\ result # -1
        THEN Strftime(result - SafetyMargin(k))
        ELSE default_date

----------------------------------------------------------------------------
(* The Diff Filter: _filter_changed_users, _filter_changed_companies *)

\* a plausible slip: only the new records are kept
IsNewOrChangedOnlyNew(result, user) == ~result.present

\* result is None, or result[0] != user["etl_hash"]
IsNewOrChanged(result, user) ==
    \/ ~result.present
    \/ result.etl_hash # Get(user, "etl_hash")

\* a plausible slip: the kept records are put in front
KeepPrepending(changed_users, user) == <<user>> \o changed_users

\* changed_users.append(user)
Keep(changed_users, user) == Append(changed_users, user)

\* a plausible slip: the except clause returns what was kept so far
FailOpenPartial(users, changed_users) == changed_users

\* the except clause: return users
FailOpen(users, changed_users) == users

\* the loop over the users; the lookup number failAt raises (0: none does)
RECURSIVE FilterLoop(_, _, _, _, _)
FilterLoop(users, table, failAt, i, changed_users) ==
    IF i > Len(users) THEN changed_users
    ELSE IF i = failAt \/ ~HasKey(users[i], "sys_id")
              \/ ~HasKey(users[i], "etl_hash")
         THEN FailOpen(users, changed_users)
         ELSE LET result == table[Get(users[i], "sys_id").s]
              IN  FilterLoop(users, table, failAt, i + 1,
                             IF IsNewOrChanged(result, users[i])
                             THEN Keep(changed_users, users[i])
                             ELSE changed_users)

\* _filter_changed_*; connFails: get_db_connection raises
filter_changed(users, table, connFails, failAt) ==
    IF users = <<>> THEN <<>>
    ELSE IF connFails THEN FailOpen(users, <<>>)
    ELSE FilterLoop(users, table, failAt, 1, <<>>)

----------------------------------------------------------------------------
(* Full sync: the deduplication of _extract_all_users / _extract_all_companies *)

RECURSIVE DedupLoop(_, _, _, _)
DedupLoop(all_users, i, seen_ids, unique_users) ==
    IF i > Len(all_users) THEN unique_users
    ELSE LET id == Get(all_users[i], "sys_id")
         IN  IF id \notin seen_ids
             THEN DedupLoop(all_users, i + 1, seen_ids \cup {id},
                            Append(unique_users, all_users[i]))
             ELSE DedupLoop(all_users, i + 1, seen_ids, unique_users)

\* a plausible slip: the later occurrence of a sys_id replaces the earlier
RECURSIVE DedupKeepLast(_)
DedupKeepLast(all_users) ==
    IF all_users = <<>> THEN <<>>
    ELSE LET rest == DedupKeepLast(Tail(all_users))
         IN  IF \E j \in 1..Len(rest) :
                    Get(rest[j], "sys_id") = Get(Head(all_users), "sys_id")
             THEN rest
             ELSE <<Head(all_users)>> \o rest

\* unique_users: the first occurrence of every sys_id, in order
Dedup(all_users) == DedupLoop(all_users, 1, {}, <<>>)

----------------------------------------------------------------------------
(* The calls of the extractor *)

\* what a call of the extractor leaves behind: which path it took, what each
\* fetch returned, whether the remote table changed between the fetches
\* (raced), the watermark, what went in and out of the Diff Filter, the
\* faults it met, and the DataFrame it returned (out); for the calls of the
\* Missing-Reference Resolver, the set of missing ids it found (gap), whether
\* that lookup failed, the list of ids it was to fetch (ids), the fetch of
\* every batch (fetches) and the number of page requests it issued
Outcome ==
    [op |-> "none", force |-> FALSE, path |-> "none", status |-> "ok",
     netFail |-> FALSE, raced |-> FALSE, active |-> <<>>, inactive |-> <<>>,
     wm |-> -1, wmFails |-> FALSE, modified |-> <<>>,
     filtered |-> FALSE, filterIn |-> <<>>, filterOut |-> <<>>,
     connFails |-> FALSE, lookupFail |-> 0, out |-> <<>>,
     gap |-> {}, gapFails |-> FALSE, ids |-> <<>>, fetches |-> <<>>,
     requests |-> 0, calls |-> {}, result |-> TRUE, steps |-> <<>>,
     args |-> <<>>, payload |-> NoneV, loaded |-> NoneV]

\* pl.DataFrame(records): the rows of the frame, or the empty frame
DataFrame(records) == records

\* a plausible slip: the full sync also fetches by id what it did not get
FullSyncCallsWithBackfill ==
    {"paginated_request", "_process_and_hash", "get_by_ids"}

\* the methods the body of _extract_all_users / _extract_all_companies calls
FullSyncCalls == {"paginated_request", "_process_and_hash"}

\* the methods the body of _extract_incremental_users /
\* _extract_incremental_companies calls
IncrementalCalls ==
    {"_get_last_sync_date", "paginated_request", "_process_and_hash",
     "_filter_changed"}

\* _extract_all_users / _extract_all_companies at instant t: src1 is the
\* remote table while the active rows are fetched, src2 while the inactive
\* ones are; failA and failB are the requests of each fetch that fail
extract_all(k, src1, src2, t, failA, failB) ==
    LET active_users   == paginated_request(QueryActive(k, src1), PageLimit, failA)
        cutoff_date    == Strftime(t - InactiveCutoffDays * TicksPerDay)
        inactive_users == paginated_request(
                              QueryInactiveSince(k, src2, cutoff_date),
                              PageLimit, failB)
        unique_users   == Dedup(active_users \o inactive_users)
    IN  [Outcome EXCEPT
            !.path = "full",
            !.calls = FullSyncCalls,
            !.status = IF \E i \in 1..Len(unique_users) : TagRaises(unique_users[i])
                       THEN "raised" ELSE "ok",
            !.netFail = (failA # 0 \/ failB # 0),
            !.active = active_users,
            !.inactive = inactive_users,
            !.out = IF unique_users # <<>>
                    THEN DataFrame(ProcessAndHash(k, unique_users, t))
                    ELSE DataFrame(<<>>)]

\* _extract_incremental_users / _extract_incremental_companies at instant t
extract_incremental(k, src, table, t, wmFails, failAt, connFails, lookupFail) ==
    LET last_sync_date  == get_last_sync_date(k, table, t, wmFails)
        modified_users  == paginated_request(
                               QueryUpdatedSince(k, src, last_sync_date),
                               PageLimit, failAt)
        processed_users == ProcessAndHash(k, modified_users, t)
        users_to_update == filter_changed(processed_users, table, connFails,
                                          lookupFail)
    IN  [Outcome EXCEPT
            !.path = "incremental",
            !.calls = IncrementalCalls,
            !.status = IF \E i \in 1..Len(modified_users) : TagRaises(modified_users[i])
                       THEN "raised" ELSE "ok",
            !.netFail = (failAt # 0),
            !.wm = last_sync_date,
            !.wmFails = wmFails,
            !.modified = modified_users,
            !.filtered = (modified_users # <<>>),
            !.filterIn = IF modified_users # <<>> THEN processed_users ELSE <<>>,
            !.filterOut = IF modified_users # <<>> THEN users_to_update ELSE <<>>,
            !.connFails = connFails,
            !.lookupFail = lookupFail,
            !.out = IF modified_users # <<>> /\ users_to_update # <<>>
                    THEN DataFrame(users_to_update)
                    ELSE DataFrame(<<>>)]

\* a remote record another writer changes: its name or its active flag
Renamed(r, t) == [r EXCEPT !.name = IF r.name = "Foo" THEN "Bar" ELSE "Foo",
                           !.upd = Strftime(t)]
Toggled(r, t) == [r EXCEPT !.active = ~r.active, !.upd = Strftime(t)]

\* the full path as an action: between the two fetches the remote table
\* may change (a record is deactivated by another writer)
RunExtractAll(op, force) ==
    \E changed \in {FALSE, TRUE} :
    \E id \in Ids :
       LET src2 == IF changed THEN [source EXCEPT ![id] = Toggled(source[id], now)]
                   ELSE source
           cutoff == Strftime(now - InactiveCutoffDays * TicksPerDay)
       IN  /\ changed => updates < MaxUpdates
           /\ ~changed => id = IdSeq[1]
           /\ \E failA \in FailPoints(QueryActive(kind, source), PageLimit) :
              \E failB \in FailPoints(QueryInactiveSince(kind, src2, cutoff), PageLimit) :
                 ret' = [extract_all(kind, source, src2, now, failA, failB)
                            EXCEPT !.op = op, !.force = force, !.raced = changed]
           /\ source' = src2
           /\ updates' = IF changed THEN updates + 1 ELSE updates

\* the incremental path as an action
RunExtractIncremental(op, force) ==
    /\ \E wmFails \in BOOLEAN :
       LET wm   == get_last_sync_date(kind, db, now, wmFails)
           rows == QueryUpdatedSince(kind, source, wm)
       IN  \E failAt \in FailPoints(rows, PageLimit) :
           LET n == Len(paginated_request(rows, PageLimit, failAt))
           IN  \E connFails \in BOOLEAN :
               \E lookupFail \in 0..n :
                  /\ connFails => (n > 0 /\ lookupFail = 0)
                  /\ ret' = [extract_incremental(kind, source, db, now, wmFails,
                                                 failAt, connFails, lookupFail)
                                EXCEPT !.op = op, !.force = force]
    /\ UNCHANGED <<source, updates>>

\* extract_data(force_full_sync): the argument is overwritten with True
\* before it is read
ExtractData ==
    /\ ret = NoCall
    /\ \E force \in BOOLEAN :
          LET force_full_sync == TRUE
          IN  IF force_full_sync
              THEN RunExtractAll("extract_data", force)
              ELSE RunExtractIncremental("extract_data", force)
    /\ UNCHANGED <<kind, now, ticks, db, rec1, rec2, edits, tag1, tag2,
                 arg1, arg2, incident, json_table>>

\* _extract_incremental_users / _extract_incremental_companies, called as
\* such: extract_data never reaches it
ExtractIncremental ==
    /\ ret = NoCall
    /\ RunExtractIncremental("_extract_incremental", FALSE)
    /\ UNCHANGED <<kind, now, ticks, db, rec1, rec2, edits, tag1, tag2,
                 arg1, arg2, incident, json_table>>

----------------------------------------------------------------------------
(* The store: save_dataframes_to_database *)

\* pk = "id" if "id" in columns else columns[0]
PrimaryKey(df) == IF HasKey(df[1], "id") THEN "id" ELSE df[1][1].k

\* the MERGE of every row of the frame, in order
RECURSIVE Upsert(_, _, _)
Upsert(table, df, i) ==
    IF i > Len(df) THEN table
    ELSE Upsert([table EXCEPT ![Get(df[i], PrimaryKey(df)).s] =
                     Row(Get(df[i], "etl_hash"), Get(df[i], "etl_updated_at").n)],
                df, i + 1)

\* the caller hands the frame it got to save_dataframes_to_database; the
\* commit comes after the last MERGE, so a failure leaves the table as it was
SaveDataframes ==
    /\ ret.op \in {"extract_data", "_extract_incremental"}
    /\ ret.out # <<>>
    /\ \E saved \in BOOLEAN :
          /\ db' = IF saved THEN Upsert(db, ret.out, 1) ELSE db
          /\ ret' = NoCall
    /\ UNCHANGED <<kind, now, ticks, source, updates, rec1, rec2, edits, tag1, tag2,
                 arg1, arg2, incident, json_table>>

\* the caller drops the frame it got
Discard ==
    /\ ret # NoCall
    /\ ret' = NoCall
    /\ UNCHANGED <<kind, now, ticks, source, updates, db, rec1, rec2, edits, tag1, tag2,
                 arg1, arg2, incident, json_table>>

----------------------------------------------------------------------------
(* The environment: the clock and the other writers of the remote table,  *)
(* seen between two calls of the extractor                                 *)

\* how far the clock moves between two calls
ClockSteps == {90 * 60 * TicksPerSec, 31 * TicksPerDay}

Tick ==
    /\ ret = NoCall
    /\ ticks < MaxTicks
    /\ \E d \in ClockSteps : now' = now + d
    /\ ticks' = ticks + 1
    /\ UNCHANGED <<kind, source, updates, db, ret, rec1, rec2, edits, tag1, tag2,
                 arg1, arg2, incident, json_table>>

\* another writer changes a remote record
SourceUpdate ==
    /\ ret = NoCall
    /\ updates < MaxUpdates
    /\ \E id \in Ids :
          \/ source' = [source EXCEPT ![id] = Renamed(source[id], now)]
          \/ source' = [source EXCEPT ![id] = Toggled(source[id], now)]
    /\ updates' = updates + 1
    /\ UNCHANGED <<kind, now, ticks, db, ret, rec1, rec2, edits, tag1, tag2,
                 arg1, arg2, incident, json_table>>

\* the remote table holds active records that were just updated; the reference
\* table is empty; the clock is just after a whole second
Init ==
    /\ kind \in Kinds
    /\ now = T0 + 1
    /\ ticks = 0
    /\ source = [id \in Ids |-> [name |-> "Foo", active |-> TRUE,
                                 upd |-> Strftime(T0)]]
    /\ updates = 0
    /\ db = EmptyTable
    /\ ret = NoCall
    /\ rec1 = <<>>
    /\ rec2 = <<>>
    /\ edits = 0
    /\ tag1 = Untagged
    /\ tag2 = Untagged
    /\ arg1 = <<>>
    /\ arg2 = <<>>
    /\ incident = <<>>
    /\ json_table = <<>>

Next ==
    \/ ExtractData
    \/ ExtractIncremental
    \/ SaveDataframes
    \/ Discard
    \/ Tick
    \/ SourceUpdate

Spec == Init /\ [][Next]_vars

----------------------------------------------------------------------------
(* Claims about the calls of the extractor *)

Called(op) == ret.op = op

\* the ChangeSet Resolver has returned
Resolved == ret.op \in {"extract_data", "_extract_incremental"}

\* C1: extract_data called with force_full_sync = False takes the
\* incremental path: the watermark is computed, the records updated since
\* are fetched, and what is returned is what the Diff Filter kept of them.
C1_NotForcedIsIncremental ==
    (Called("extract_data") /\ ~ret.force)
        => /\ ret.path = "incremental"
           /\ ret.wm # -1
           /\ ret.out = ret.filterOut

\* C2: a call one of whose page requests met a transport error fails as a
\* whole: it does not return a frame (partial or empty) as a success.
C2_TransportErrorFailsCall ==
    (Resolved /\ ret.netFail) => ret.status = "raised"

\* the Diff Filter ran and a lookup of it failed
FilterFailed == ret.filtered /\ (ret.connFails \/ ret.lookupFail # 0)

\* C3: when the connection or any point lookup of the Diff Filter fails,
\* the filter returns its whole input, unmodified and in the same order.
C3_FailOpen ==
    (Called("_extract_incremental") /\ FilterFailed)
        => ret.filterOut = ret.filterIn

\* the second lookup failed after the first record was found unchanged
C3_Witness ==
    /\ Called("_extract_incremental")
    /\ ret.lookupFail = 2
    /\ LET first == ret.filterIn[1]
       IN  /\ db[Get(first, "sys_id").s].present
           /\ db[Get(first, "sys_id").s].etl_hash = Get(first, "etl_hash")

\* the persisted row of a tagged record
Persisted(record) == db[Get(record, "sys_id").s]

IsNew(record) == ~Persisted(record).present
IsChanged(record) ==
    Persisted(record).present /\ Persisted(record).etl_hash # Get(record, "etl_hash")
IsUnchanged(record) ==
    Persisted(record).present /\ Persisted(record).etl_hash = Get(record, "etl_hash")

Occurs(record, list) == \E j \in 1..Len(list) : list[j] = record

\* C4: when every lookup succeeds, the Diff Filter keeps a record exactly
\* when it is new (no persisted row has its sys_id) or changed (the
\* persisted etl_hash differs from its own), and drops the unchanged ones.
C4_Classification ==
    (Called("_extract_incremental") /\ ret.filtered /\ ~FilterFailed)
        => /\ \A i \in 1..Len(ret.filterIn) :
                 Occurs(ret.filterIn[i], ret.filterOut)
                     <=> (IsNew(ret.filterIn[i]) \/ IsChanged(ret.filterIn[i]))
           /\ Len(ret.filterOut) =
                 Cardinality({i \in 1..Len(ret.filterIn) :
                                 ~IsUnchanged(ret.filterIn[i])})

\* a changed record was kept and an unchanged one dropped in one run
C4_Witness ==
    /\ Called("_extract_incremental")
    /\ ret.filtered
    /\ ~FilterFailed
    /\ \E i, j \in 1..Len(ret.filterIn) :
          /\ IsChanged(ret.filterIn[i])
          /\ IsUnchanged(ret.filterIn[j])
    /\ Len(ret.filterOut) = 1

RECURSIVE IsSubSequence(_, _)
IsSubSequence(a, b) ==
    IF a = <<>> THEN TRUE
    ELSE IF b = <<>> THEN FALSE
    ELSE IF Head(a) = Head(b) THEN IsSubSequence(Tail(a), Tail(b))
    ELSE IsSubSequence(a, Tail(b))

\* C5: with or without a failed lookup, what the Diff Filter returns is a
\* sub-sequence of its input: no longer than it, made of elements of it,
\* in the order of the input.
C5_SubSequence ==
    (Called("_extract_incremental") /\ ret.filtered)
        => /\ Len(ret.filterOut) <= Len(ret.filterIn)
           /\ IsSubSequence(ret.filterOut, ret.filterIn)

\* two records were kept by lookups that all succeeded, against a table
\* that holds rows
C5_Witness ==
    /\ Called("_extract_incremental")
    /\ ~FilterFailed
    /\ Len(ret.filterOut) = 2
    /\ \E id \in Ids : db[id].present

SysIds(list) == {Get(list[i], "sys_id") : i \in 1..Len(list)}

\* the sys_ids a full sync at this instant is to return: the active
\* records, and the inactive ones updated in the last 30 days
DueInFullSync ==
    {Str(id) : id \in {i \in Ids :
                 \/ source[i].active
                 \/ source[i].upd >= Strftime(now - 30 * 24 * 3600 * TicksPerSec)}}

\* C9: the full sync returns one record for every sys_id that the active
\* or the inactive fetch returned, never two with the same sys_id, and for
\* a sys_id returned by both fetches the active version; when the remote
\* table stands still and every page request is answered, these are all
\* the active records and the inactive ones updated in the last 30 days.
C9_FullSyncDedup ==
    (Called("extract_data") /\ ret.path = "full")
        => /\ \A i, j \in 1..Len(ret.out) :
                 Get(ret.out[i], "sys_id") = Get(ret.out[j], "sys_id") => i = j
           /\ SysIds(ret.out) = SysIds(ret.active) \cup SysIds(ret.inactive)
           /\ \A i \in 1..Len(ret.active) : \E j \in 1..Len(ret.out) :
                 /\ Get(ret.out[j], "sys_id") = Get(ret.active[i], "sys_id")
                 /\ Get(ret.out[j], "name") = Get(ret.active[i], "name")
                 /\ Get(ret.out[j], "active") \in {Str("true"), IntV(1)}
           /\ (~ret.netFail /\ ~ret.raced) => SysIds(ret.out) = DueInFullSync

\* a sys_id came back from the active and from the inactive fetch
C9_Witness ==
    /\ Called("extract_data")
    /\ SysIds(ret.active) \cap SysIds(ret.inactive) # {}

\* the safety margin the watermark is to keep: 1 hour for users, 2 hours for
\* companies
ClaimedMargin == (IF kind = "user" THEN 1 ELSE 2) * 3600 * TicksPerSec

\* the row m holds the latest etl_updated_at of the reference table
IsLatest(m) ==
    /\ db[m].present
    /\ \A j \in Ids : db[j].present => db[j].etl_updated_at <= db[m].etl_updated_at

\* C10 as stated: whenever the reference table holds a row with an
\* etl_updated_at, _get_last_sync_date returns max(etl_updated_at) minus
\* the margin of the kind.
C10_Original ==
    Called("_extract_incremental")
        => \A m \in Ids :
              IsLatest(m) => ret.wm = Strftime(db[m].etl_updated_at - ClaimedMargin)

\* C10 as amended: when the lookup succeeds and the reference table holds a
\* row with an etl_updated_at, _get_last_sync_date returns
\* max(etl_updated_at) minus 1 hour for users and minus 2 hours for
\* companies, as a timestamp text of whole seconds.
C10_WatermarkIsMaxMinusMargin ==
    (Called("_extract_incremental") /\ ~ret.wmFails)
        => \A m \in Ids :
              IsLatest(m) => ret.wm = Strftime(db[m].etl_updated_at - ClaimedMargin)

\* the watermark of the companies was read from a table that holds rows
\* saved at two different instants
C10_Witness ==
    /\ Called("_extract_incremental")
    /\ ~ret.wmFails
    /\ kind = "company"
    /\ \E i, j \in Ids :
          /\ db[i].present
          /\ db[j].present
          /\ db[i].etl_updated_at < db[j].etl_updated_at

\* the default lookback the watermark is to fall back to: 7 days for users,
\* 30 days for companies
ClaimedLookback == (IF kind = "user" THEN 7 ELSE 30) * 24 * 3600 * TicksPerSec

\* the reference table holds no row, so MAX(etl_updated_at) is NULL
TableEmpty == \A id \in Ids : ~db[id].present

\* C11: when the reference table is empty or the watermark lookup fails,
\* _get_last_sync_date does not raise and returns now minus 7 days (users)
\* or 30 days (companies); the incremental sync goes on with that
\* watermark: it fetches the records updated since then.
C11_WatermarkFallback ==
    (Called("_extract_incremental") /\ (ret.wmFails \/ TableEmpty))
        => /\ ret.wm = Strftime(now - ClaimedLookback)
           /\ ret.status = "ok"
           /\ ret.path = "incremental"
           /\ IsSubSequence(ret.modified, QueryUpdatedSince(kind, source, ret.wm))
           /\ ~ret.netFail
                 => ret.modified = QueryUpdatedSince(kind, source, ret.wm)

\* the lookup of the companies failed on a table that holds rows, and the
\* sync went on to return records
C11_Witness ==
    /\ Called("_extract_incremental")
    /\ kind = "company"
    /\ ret.wmFails
    /\ ~TableEmpty
    /\ ret.out # <<>>

----------------------------------------------------------------------------
(* The Missing-Reference Resolver: get_missing_*_ids_from_incidents,        *)
(* get_*_by_ids, sync_missing_*                                              *)

\* NULL in a column of the incident table
SqlNull == "NULL"

\* a row of the incident table: its reference columns
IncidentRow(resolved_by, opened_by, caller_id, company) ==
    [resolved_by |-> resolved_by, opened_by |-> opened_by,
     caller_id |-> caller_id, company |-> company]

\* SELECT resolved_by ... UNION SELECT opened_by ... UNION SELECT caller_id
\* ..., each WHERE ... IS NOT NULL, for users; SELECT DISTINCT company ...
\* WHERE company IS NOT NULL, for companies
ReferencedIds(k, rows) ==
    IF k = "user"
    THEN {rows[i].resolved_by : i \in {j \in 1..Len(rows) : rows[j].resolved_by # SqlNull}}
         \cup {rows[i].opened_by : i \in {j \in 1..Len(rows) : rows[j].opened_by # SqlNull}}
         \cup {rows[i].caller_id : i \in {j \in 1..Len(rows) : rows[j].caller_id # SqlNull}}
    ELSE {rows[i].company : i \in {j \in 1..Len(rows) : rows[j].company # SqlNull}}

\* SELECT sys_id FROM sys_user / sys_company
PresentIds(table) == {id \in Ids : table[id].present}

\* a plausible slip: the ids already in the reference table are not left out
get_missing_ids_all_referenced(k, rows, table, lookupFails) ==
    IF lookupFails THEN {} ELSE ReferencedIds(k, rows)

\* a plausible slip: the rows a lookup read before it failed are kept
get_missing_ids_keeps_rows(k, rows, table, lookupFails) ==
    {id \in ReferencedIds(k, rows) : id \notin PresentIds(table)}

\* get_missing_user_ids_from_incidents / get_missing_company_ids_from_incidents;
\* lookupFails: get_db_connection or the query raises, which the except
\* clause swallows, and the set is returned as it was built so far: empty
get_missing_ids(k, rows, table, lookupFails) ==
    IF lookupFails THEN {}
    ELSE {id \in ReferencedIds(k, rows) : id \notin PresentIds(table)}

\* a plausible slip: the lookup empties the reference table before its
\* with block commits
AfterSelectsAndDelete(table) == EmptyTable

\* the with block of a lookup ends in a commit, after SELECT statements only
AfterSelects(table) == table

\* get_missing_*_ids_from_incidents, called as such
FindGap ==
    /\ ret = NoCall
    /\ \E lookupFails \in BOOLEAN :
          ret' = [Outcome EXCEPT
                     !.op = "get_missing_ids",
                     !.calls = {"get_missing_ids"},
                     !.gap = get_missing_ids(kind, incident, db, lookupFails),
                     !.gapFails = lookupFails]
    /\ db' = AfterSelects(db)
    /\ UNCHANGED <<kind, now, ticks, source, updates, rec1, rec2, edits, tag1, tag2,
                   arg1, arg2, incident, json_table>>

\* batch_size = 50
BatchSize == 50

\* the longest list of ids a run hands to get_*_by_ids
MaxGapIds == 2 * BatchSize + 1

\* the ids the incident table may refer to: those of the remote table and
\* one the remote table does not hold
RefIds == Ids \cup {"z"}

Elements(list) == {list[j] : j \in 1..Len(list)}

\* the page requests a paginated_request issues when its request number
\* failAt fails (0: none does): it stops at the failed one
RequestsIssued(rows, limit, failAt) ==
    IF failAt \in 1..Requests(rows, limit) THEN failAt ELSE Requests(rows, limit)

\* a plausible slip: the loop steps by one batch less one id, so that
\* neighbouring batches share an id
BatchStepOverlapping == BatchSize - 1

\* range(0, len(user_ids_list), batch_size): the step of the loop
BatchStep == BatchSize

\* the loop over the batches of get_*_by_ids, from index i (0-based); the
\* request number failAt of the batch number failBatch fails; acc holds
\* all_users, whether a request has failed, the fetch of every batch so far
\* and the requests issued
RECURSIVE ByIdsLoop(_, _, _, _, _, _, _)
ByIdsLoop(k, src, ids_list, i, failBatch, failAt, acc) ==
    IF i >= Len(ids_list) THEN acc
    ELSE LET batch_ids   == SubSeq(ids_list, i + 1, Min(i + BatchSize, Len(ids_list)))
             \* "sys_id=x^ORsys_id=y...": the rows whose sys_id is in the batch
             rows        == QueryFrom(k, src, Elements(batch_ids), 1)
             fail        == IF Len(acc.fetches) + 1 = failBatch THEN failAt ELSE 0
             batch_users == paginated_request(rows, PageLimit, fail)
         IN  ByIdsLoop(k, src, ids_list, i + BatchStep, failBatch, failAt,
                       [all |-> acc.all \o batch_users,
                        failed |-> acc.failed
                                   \/ fail \in 1..Requests(rows, PageLimit),
                        fetches |-> Append(acc.fetches,
                                           [query |-> batch_ids, result |-> batch_users]),
                        requests |-> acc.requests
                                     + RequestsIssued(rows, PageLimit, fail)])

\* the turns of the loop of get_*_by_ids and what follows them
get_by_ids_batches(k, src, ids_list, t, failBatch, failAt) ==
    LET r == ByIdsLoop(k, src, ids_list, 0, failBatch, failAt,
                       [all |-> <<>>, failed |-> FALSE, fetches |-> <<>>,
                        requests |-> 0])
    IN  [Outcome EXCEPT
            !.status = IF \E i \in 1..Len(r.all) : TagRaises(r.all[i])
                       THEN "raised" ELSE "ok",
            !.netFail = r.failed,
            !.calls = {"get_by_ids", "paginated_request", "_process_and_hash"},
            !.ids = ids_list,
            !.fetches = r.fetches,
            !.requests = r.requests,
            !.out = IF r.all # <<>>
                    THEN DataFrame(ProcessAndHash(k, r.all, t))
                    ELSE DataFrame(<<>>)]

\* a plausible slip: no ids, no filter: one fetch with an empty
\* sysparm_query, which selects every row of the remote table
get_by_ids_unfiltered(k, src, ids_list, t, failBatch, failAt) ==
    IF ids_list = <<>>
    THEN LET rows == QueryFrom(k, src, Ids, 1)
         IN  [Outcome EXCEPT
                 !.calls = {"get_by_ids", "paginated_request", "_process_and_hash"},
                 !.fetches = <<[query |-> <<>>, result |-> rows]>>,
                 !.requests = Requests(rows, PageLimit),
                 !.out = DataFrame(ProcessAndHash(k, rows, t))]
    ELSE get_by_ids_batches(k, src, ids_list, t, failBatch, failAt)

\* get_users_by_ids / get_companies_by_ids at instant t: an empty set of ids
\* is answered at once
get_by_ids(k, src, ids_list, t, failBatch, failAt) ==
    IF ids_list = <<>>
    THEN [Outcome EXCEPT !.calls = {"get_by_ids"}, !.out = DataFrame(<<>>)]
    ELSE get_by_ids_batches(k, src, ids_list, t, failBatch, failAt)

\* the number of batches of a list
NumBatches(ids_list) == (Len(ids_list) + BatchSize - 1) \div BatchSize

\* the faults a call of get_*_by_ids may meet: none (<<0, 0>>), or the page
\* request number failAt of the batch number failBatch
ByIdsFaults(ids_list) ==
    {<<0, 0>>} \cup
    {<<b, p>> : b \in 1..NumBatches(ids_list), p \in 1..Requests(IdSeq, PageLimit)}

\* get_*_by_ids on a list of ids, as an action
RunGetByIds(op, ids_list) ==
    \E f \in ByIdsFaults(ids_list) :
       ret' = [get_by_ids(kind, source, ids_list, now, f[1], f[2]) EXCEPT !.op = op]

\* the lists without repetition of at most n ids of a set: list(user_ids)
\* of a set, in whatever order the set is iterated
ListsOf(S, n) ==
    {l \in UNION {[1..m -> S] : m \in 0..n} :
        \A i, j \in 1..Len(l) : l[i] = l[j] => i = j}

\* get_*_by_ids on the ids of a small gap
GetByIds ==
    /\ ret = NoCall
    /\ \E ids_list \in ListsOf(RefIds, Cardinality(RefIds)) :
          RunGetByIds("get_by_ids", ids_list)
    /\ UNCHANGED <<kind, now, ticks, source, updates, db, rec1, rec2, edits,
                   tag1, tag2, arg1, arg2, incident, json_table>>

\* sync_missing_users / sync_missing_companies: the gap is looked up, and
\* fetched when it is not empty
SyncMissing ==
    /\ ret = NoCall
    /\ \E lookupFails \in BOOLEAN :
          LET missing_ids == get_missing_ids(kind, incident, db, lookupFails)
          IN  IF missing_ids # {}
              THEN \E ids_list \in ListsOf(missing_ids, Cardinality(missing_ids)) :
                      /\ Len(ids_list) = Cardinality(missing_ids)
                      /\ \E f \in ByIdsFaults(ids_list) :
                            ret' = [get_by_ids(kind, source, ids_list, now, f[1], f[2])
                                       EXCEPT !.op = "sync_missing",
                                              !.calls = @ \cup {"get_missing_ids"},
                                              !.gap = missing_ids,
                                              !.gapFails = lookupFails]
              ELSE ret' = [Outcome EXCEPT !.op = "sync_missing",
                                          !.calls = {"get_missing_ids"},
                                          !.gap = missing_ids,
                                          !.gapFails = lookupFails,
                                          !.out = DataFrame(<<>>)]
    /\ db' = AfterSelects(db)
    /\ UNCHANGED <<kind, now, ticks, source, updates, rec1, rec2, edits, tag1, tag2,
                   arg1, arg2, incident, json_table>>

----------------------------------------------------------------------------
(* Runs of the resolvers over a store that holds incidents *)

\* the incident tables of the runs: none; the ids a, z, z and NULL, over
\* the columns of both kinds; both remote ids and the unknown one, in
\* several columns
IncidentTables ==
    {<<>>,
     <<IncidentRow("a", "z", SqlNull, "a"), IncidentRow(SqlNull, "z", "z", "z"),
       IncidentRow(SqlNull, SqlNull, SqlNull, "z"),
       IncidentRow(SqlNull, SqlNull, SqlNull, SqlNull)>>,
     <<IncidentRow("b", "a", SqlNull, "b"), IncidentRow("a", "b", "z", "a")>>}

SyncInit ==
    /\ kind \in Kinds
    /\ now = T0 + 1
    /\ ticks = 0
    /\ source = [id \in Ids |-> [name |-> "Foo", active |-> TRUE,
                                 upd |-> Strftime(T0)]]
    /\ updates = 0
    /\ db = EmptyTable
    /\ ret = NoCall
    /\ rec1 = <<>>
    /\ rec2 = <<>>
    /\ edits = 0
    /\ tag1 = Untagged
    /\ tag2 = Untagged
    /\ arg1 = <<>>
    /\ arg2 = <<>>
    /\ incident \in IncidentTables
    /\ json_table = <<>>

SyncNext ==
    \/ ExtractData
    \/ ExtractIncremental
    \/ FindGap
    \/ GetByIds
    \/ SyncMissing
    \/ SaveDataframes
    \/ Discard

SpecSync == SyncInit /\ [][SyncNext]_vars

\* the ids that some configured reference column of some incident holds: for
\* users resolved_by, opened_by and caller_id, for companies company
InSomeColumn(id) ==
    \E i \in 1..Len(incident) :
       IF kind = "user"
       THEN id \in {incident[i].resolved_by, incident[i].opened_by,
                    incident[i].caller_id}
       ELSE id = incident[i].company

\* the gap of the store: the non-null ids some incident refers to that have
\* no row in the reference table
StoreGap == {id \in RefIds : InSomeColumn(id) /\ ~(id \in Ids /\ db[id].present)}

\* C12 as stated: get_missing_*_ids_from_incidents returns exactly the
\* distinct non-null ids of the reference columns of the incident table that
\* are not ids of the reference table.
C12_Original ==
    Called("get_missing_ids") => ret.gap = StoreGap

\* C12 as amended: when its lookup succeeds, get_missing_*_ids_from_incidents
\* returns exactly the distinct non-null ids of the reference columns of the
\* incident table that are not ids of the reference table: NULL is never in
\* the result, and an id referred to more than once is in it once.
C12_GapIsReferencedMinusPresent ==
    (Called("get_missing_ids") /\ ~ret.gapFails)
        => /\ ret.gap = StoreGap
           /\ SqlNull \notin ret.gap

\* a table that refers to a present id, twice to a missing one and to NULL
\* was looked up: the gap is the missing id alone
C12_Witness ==
    /\ Called("get_missing_ids")
    /\ ~ret.gapFails
    /\ ret.gap = {"z"}
    /\ db["a"].present
    /\ InSomeColumn("a")
    /\ Cardinality({i \in 1..Len(incident) : incident[i].company = "z"}) > 1
    /\ \E i \in 1..Len(incident) : incident[i].company = SqlNull

\* the call fetched nothing and returned the empty frame
NothingFetched ==
    /\ ret.out = <<>>
    /\ ret.requests = 0
    /\ ret.fetches = <<>>
    /\ ret.status = "ok"

\* C13: get_*_by_ids called with no ids, and sync_missing_* when the gap is
\* empty, return an empty result and issue no fetch request.
C13_EmptyGapNoFetch ==
    /\ (Called("get_by_ids") /\ ret.ids = <<>>) => NothingFetched
    /\ (Called("sync_missing") /\ ret.gap = {}) => NothingFetched

\* sync_missing_* found, by a lookup that succeeded, that every id the
\* incidents refer to is in the reference table
C13_Witness ==
    /\ Called("sync_missing")
    /\ ~ret.gapFails
    /\ ret.gap = {}
    /\ ReferencedIds(kind, incident) # {}

----------------------------------------------------------------------------
(* Runs of get_*_by_ids over gaps of more than one batch *)

\* a list of n ids that holds the remote id a at pa, the remote id b at pb
\* and ids the remote table does not hold everywhere else
LongList(n, pa, pb) ==
    [i \in 1..n |-> IF i = pa THEN "a" ELSE IF i = pb THEN "b"
                    ELSE "x" \o ToString(i)]

\* the lists of the runs: as long as a batch, one id less or more, and up to
\* MaxGapIds, with the remote ids at the ends of the list and of a batch,
\* or one of them left out
LongLists ==
    LET ends == {1, BatchSize, BatchSize + 1, 2 * BatchSize + 1}
    IN  {LongList(t[1], t[2], t[3]) :
            t \in {u \in (((BatchSize - 1)..(BatchSize + 1))
                           \cup ((2 * BatchSize - 1)..MaxGapIds))
                          \X ends \X ends : u[2] # u[3]}}

\* get_*_by_ids on the ids of a gap of more than one batch
GetByIdsBatched ==
    /\ ret = NoCall
    /\ \E ids_list \in LongLists : RunGetByIds("get_by_ids", ids_list)
    /\ UNCHANGED <<kind, now, ticks, source, updates, db, rec1, rec2, edits,
                   tag1, tag2, arg1, arg2, incident, json_table>>

BatchNext ==
    \/ GetByIdsBatched
    \/ Discard

SpecBatch == SyncInit /\ [][BatchNext]_vars

RECURSIVE Concat(_)
Concat(lists) == IF lists = <<>> THEN <<>> ELSE Head(lists) \o Concat(Tail(lists))

\* ceil(n / 50)
CeilOver50(n) == (n + 49) \div 50

\* the records the fetches returned, as the frame holds them: tagged at the
\* instant of the call
TaggedNow(records) == ProcessAndHash(kind, records, now)

\* C14: get_*_by_ids on n > 0 ids makes ceil(n/50) batches of at most 50
\* ids, which one after the other make up the list of ids, so that every id
\* is in exactly one batch; it issues one fetch for every batch, whose filter
\* names the sys_ids of the batch and so returns the remote records of these
\* ids only; and its result is made of the results of the batches, in the
\* order of the batches.
C14_BatchesOfFifty ==
    (Called("get_by_ids") /\ ret.ids # <<>>)
        => /\ Len(ret.fetches) = CeilOver50(Len(ret.ids))
           /\ \A b \in 1..Len(ret.fetches) :
                 /\ Len(ret.fetches[b].query) \in 1..50
                 /\ \A r \in 1..Len(ret.fetches[b].result) :
                       Get(ret.fetches[b].result[r], "sys_id").s
                           \in Elements(ret.fetches[b].query)
                 /\ ~ret.netFail =>
                       SysIds(ret.fetches[b].result) =
                           {Str(id) : id \in Elements(ret.fetches[b].query) \cap Ids}
           /\ Concat([b \in 1..Len(ret.fetches) |-> ret.fetches[b].query]) = ret.ids
           /\ ret.out = TaggedNow(Concat([b \in 1..Len(ret.fetches) |->
                                             ret.fetches[b].result]))

\* 101 ids were fetched in three batches, and the remote record listed
\* second by the API came back first, from an earlier batch
C14_Witness ==
    /\ Called("get_by_ids")
    /\ Len(ret.ids) = 101
    /\ Len(ret.fetches) = 3
    /\ Len(ret.out) = 2
    /\ Get(ret.out[1], "sys_id") = Str("b")

----------------------------------------------------------------------------
(* Claims about the store during the calls of the core *)

\* the operations of the core: the ChangeSet Resolver, which holds the Diff
\* Filter and the watermark lookup, and the Missing-Reference Resolver
CoreOps == {"extract_data", "_extract_incremental", "get_missing_ids",
            "get_by_ids", "sync_missing"}

\* C15: no call of the core writes to the store: a step in which
\* extract_data, the incremental sync (with its watermark lookup and its Diff
\* Filter), get_missing_*_ids_from_incidents, get_*_by_ids or sync_missing_*
\* runs, whether it meets a failed fetch or lookup or none, leaves every
\* persisted row and its etl_hash as they were.
C15_CoreNeverWrites ==
    [][(ret = NoCall /\ ret' # NoCall /\ ret'.op \in CoreOps)
          => /\ db' = db
             /\ incident' = incident]_vars

\* a call of the core that met a failed lookup has returned, over a
\* reference table that holds rows
C15_Witness ==
    /\ ret # NoCall
    /\ ret.op \in CoreOps
    /\ ret.gapFails \/ ret.wmFails \/ ret.connFails \/ ret.netFail
    /\ ~TableEmpty

----------------------------------------------------------------------------
(* Claims about what a tagging pass leaves in the records it was handed *)

\* C16: a tagging pass returns copies: the dicts it was handed hold, after
\* the pass, the fields and values the records were fetched with (no etl_*
\* or dv_* key added, no reference field flattened), and only the returned
\* records carry etl_hash, etl_created_at and etl_updated_at.
C16_TagReturnsCopy ==
    Tagged => /\ arg1 = rec1
              /\ arg2 = rec2
              /\ {"etl_hash", "etl_created_at", "etl_updated_at"} \subseteq Keys(tag1)
              /\ {"etl_hash", "etl_created_at", "etl_updated_at"} \subseteq Keys(tag2)

----------------------------------------------------------------------------
(* ServiceNowETLOrchestrator: what each of its operations fetches, saves
   and returns *)

\* a plausible slip: _save_df calls the store as it is declared, and the
\* store answers False (no connection)
save_df_store_refuses(df) == "false"

\* _save_df: False for no frame or an empty one; for any other frame
\* save_dataframes_to_database(data, start_date, end_date) is called, a
\* method declared with the one parameter dataframes, and the call raises
\* TypeError before the store does anything
save_df(df) == IF df = <<>> THEN "false" ELSE "raised"

\* one thing an operation of the orchestrator did: a fetch, a save or the
\* line it printed about the records it saved
Step(do, table, res, ids, df) ==
    [do |-> do, table |-> table, res |-> res, ids |-> ids, df |-> df]

\* self._save_df(df, table) and the line printed after it, for a frame that
\* is not empty; an exception leaves the try block, and nothing is printed
SaveAndReport(table, df) ==
    LET saved == save_df(df)
    IN  IF saved = "raised"
        THEN [raised |-> TRUE,
              steps |-> <<Step("save", table, saved, <<>>, df)>>]
        ELSE [raised |-> FALSE,
              steps |-> <<Step("save", table, saved, <<>>, df),
                          Step("report_saved", table, "ok", <<>>, df)>>]

\* df_incidents[col].dropna().unique() over the columns named: the values
\* that are not null
ColumnIds(df, cols) ==
    {df[i][c] : i \in 1..Len(df), c \in cols} \ {SqlNull}

\* the columns of the incident frame among "resolved_by", "opened_by" and
\* "updated_by": the incident fields hold no updated_by
UserColumns == {"resolved_by", "opened_by"}

\* one half of sync_reference_data_from_incidents: the ids are fetched
\* when there are any, and the frame saved when it has rows
AfterFetch(table, ids_list, got) ==
    LET fetch == Step("get_by_ids", table, got.status, ids_list, got.out)
        save  == SaveAndReport(table, got.out)
    IN  IF got.status = "raised"
        THEN [raised |-> TRUE, steps |-> <<fetch>>, calls |-> got.calls]
        ELSE IF got.out = <<>>
        THEN [raised |-> FALSE, steps |-> <<fetch>>, calls |-> got.calls]
        ELSE [raised |-> save.raised, steps |-> <<fetch>> \o save.steps,
              calls |-> got.calls \cup {"_save_df"}]

\* the one element of a set of one element
Only(S) == CHOOSE x \in S : TRUE

\* df = get_*_by_ids(list(ids)) is evaluated once, and the rest of the half
\* works on its value
FetchAndSave(k, table, src, ids_list, t, f) ==
    IF ids_list = <<>> THEN [raised |-> FALSE, steps |-> <<>>, calls |-> {}]
    ELSE Only({AfterFetch(table, ids_list, got) :
                  got \in {get_by_ids(k, src, ids_list, t, f[1], f[2])}})

\* sync_reference_data_from_incidents(df_incidents) at instant t:
\* company_list and user_list are list(company_ids) and list(user_ids), fc
\* and fu the requests of each fetch that fail. Series.dropna is a method
\* of the installed polars, not of this repository: dropnaRaises says
\* whether the Series has no such method (AttributeError) or drops the nulls
sync_reference_data_from_incidents(df_incidents, src, t, dropnaRaises, company_list, user_list, fc, fu) ==
    IF df_incidents # <<>> /\ dropnaRaises
    THEN [result |-> FALSE,
          steps |-> <<Step("dropna", "incident", "raised", <<>>, <<>>)>>,
          calls |-> {}]
    ELSE Only({IF c.raised
               THEN [result |-> FALSE, steps |-> c.steps, calls |-> c.calls]
               ELSE [result |-> ~u.raised, steps |-> c.steps \o u.steps,
                     calls |-> c.calls \cup u.calls] :
               c \in {FetchAndSave("company", "sys_company", src, company_list, t, fc)},
               u \in {FetchAndSave("user", "sys_user", src, user_list, t, fu)}})

\* extract_incidents(start_date, end_date): df_incidents is the frame the
\* incident extractor returns
extract_incidents(df_incidents) ==
    LET fetch == Step("extract_data", "incident", "ok", <<>>, df_incidents)
        save  == SaveAndReport("incident", df_incidents)
    IN  IF df_incidents = <<>>
        THEN [result |-> TRUE, steps |-> <<fetch>>, calls |-> {"extract_data"}]
        ELSE [result |-> ~save.raised, steps |-> <<fetch>> \o save.steps,
              calls |-> {"extract_data", "_save_df"}]

\* sync_specific_companies("customer") at instant t: get_companies_by_type
\* asks for "customer=true^active=true"; True is returned after a save that
\* does not raise, whatever it answers
sync_specific_companies(src, t, failAt) ==
    LET companies    == paginated_request(QueryActive("company", src),
                                          PageLimit, failAt)
        df_companies == IF companies # <<>>
                        THEN DataFrame(ProcessAndHash("company", companies, t))
                        ELSE DataFrame(<<>>)
        raises       == \E i \in 1..Len(companies) : TagRaises(companies[i])
        fetch        == Step("get_companies_by_type", "sys_company",
                             IF raises THEN "raised" ELSE "ok", <<>>, df_companies)
        save         == SaveAndReport("sys_company", df_companies)
    IN  IF raises
        THEN [result |-> FALSE, steps |-> <<fetch>>,
              calls |-> {"get_companies_by_type"}]
        ELSE IF df_companies = <<>>
        THEN [result |-> TRUE, steps |-> <<fetch>>,
              calls |-> {"get_companies_by_type"}]
        ELSE [result |-> ~save.raised, steps |-> <<fetch>> \o save.steps,
              calls |-> {"get_companies_by_type", "_save_df"}]

\* sync_reference_data(force_full_sync): with the flag,
\* self.company_extractor.get_all_companies() is called first, a method no
\* extractor defines, and the AttributeError ends the try block; without
\* it the recent incidents are fetched and handed to
\* sync_reference_data_from_incidents, whose answer from_incidents is
\* dropped
sync_reference_data(force_full_sync, df_incidents, from_incidents) ==
    IF force_full_sync
    THEN [result |-> FALSE,
          steps |-> <<Step("get_all_companies", "sys_company", "raised",
                           <<>>, <<>>)>>,
          calls |-> {"get_all_companies"}]
    ELSE [result |-> TRUE,
          steps |-> <<Step("extract_data", "incident", "ok", <<>>, df_incidents)>>
                    \o from_incidents.steps,
          calls |-> {"extract_data", "sync_reference_data_from_incidents"}
                    \cup from_incidents.calls]

\* what an operation of the orchestrator did, as the outcome of a call
Orchestrated(op, force, r) ==
    [Outcome EXCEPT !.op = op, !.force = force, !.result = r.result,
                    !.steps = r.steps, !.calls = r.calls]

\* the lists that hold every id of a set once: list(ids) of a set
ListsOfAll(S) == {l \in ListsOf(S, Cardinality(S)) : Len(l) = Cardinality(S)}

\* the runs of sync_reference_data_from_incidents on a frame of incidents,
\* with every order of the two sets of ids and every request that can fail
FromIncidentsRuns(df_incidents) ==
    LET company_ids == ColumnIds(df_incidents, {"company"})
        user_ids    == ColumnIds(df_incidents, UserColumns)
    IN  UNION {{sync_reference_data_from_incidents(
                    df_incidents, source, now, dropnaRaises,
                    company_list, user_list, fc, fu) :
                fc \in ByIdsFaults(company_list), fu \in ByIdsFaults(user_list)} :
               dropnaRaises \in BOOLEAN,
               company_list \in ListsOfAll(company_ids),
               user_list \in ListsOfAll(user_ids)}

\* the orchestrator leaves the tables as they are: no save reaches the store
SyncFromIncidents ==
    /\ ret = NoCall
    /\ \E df_incidents \in IncidentTables :
       \E r \in FromIncidentsRuns(df_incidents) :
          ret' = Orchestrated("sync_reference_data_from_incidents", FALSE, r)
    /\ UNCHANGED <<kind, now, ticks, source, updates, db, rec1, rec2, edits,
                   tag1, tag2, arg1, arg2, incident, json_table>>

ExtractIncidents ==
    /\ ret = NoCall
    /\ \E df_incidents \in IncidentTables :
          ret' = Orchestrated("extract_incidents", FALSE,
                              extract_incidents(df_incidents))
    /\ UNCHANGED <<kind, now, ticks, source, updates, db, rec1, rec2, edits,
                   tag1, tag2, arg1, arg2, incident, json_table>>

SyncSpecificCompanies ==
    /\ ret = NoCall
    /\ \E failAt \in FailPoints(QueryActive("company", source), PageLimit) :
          ret' = Orchestrated("sync_specific_companies", FALSE,
                              sync_specific_companies(source, now, failAt))
    /\ UNCHANGED <<kind, now, ticks, source, updates, db, rec1, rec2, edits,
                   tag1, tag2, arg1, arg2, incident, json_table>>

SyncReferenceData ==
    /\ ret = NoCall
    /\ \E force_full_sync \in BOOLEAN : \E df_incidents \in IncidentTables :
       \E r \in FromIncidentsRuns(df_incidents) :
          ret' = Orchestrated("sync_reference_data", force_full_sync,
                              sync_reference_data(force_full_sync,
                                                  df_incidents, r))
    /\ UNCHANGED <<kind, now, ticks, source, updates, db, rec1, rec2, edits,
                   tag1, tag2, arg1, arg2, incident, json_table>>

\* self.execution_logger.start_execution(name), called before the try block
\* of a run: ExecutionLogger defines no method of that name, and the
\* AttributeError leaves the run
start_execution == "raised"

\* self.execution_logger.finish_execution(execution_id, success=..., error=...):
\* finish_execution is declared with self alone, and the call with the
\* keyword success raises TypeError before the entry is touched
finish_execution_success == "raised"

\* the call that starts the entry of the execution log
Started ==
    Step("start_execution", "servicenow_execution_log", start_execution,
         <<>>, <<>>)

\* a call of finish_execution with the success value it was given
Finished(success) ==
    Step(IF success THEN "finish_execution(success=True)"
                    ELSE "finish_execution(success=False)",
         "servicenow_execution_log", finish_execution_success, <<>>, <<>>)

\* the except clause of a run: finish_execution(execution_id, success=False,
\* error=str(e)), then return False; an exception raised inside the clause
\* leaves the run
ExceptClause(steps, calls) ==
    [status |-> IF finish_execution_success = "raised" THEN "raised" ELSE "ok",
     result |-> FALSE, steps |-> steps \o <<Finished(FALSE)>>, calls |-> calls]

\* finish_execution(execution_id, success=...) inside the try block and the
\* return that follows it; an exception of the call enters the except clause
FinishAndReturn(success, steps, calls) ==
    IF finish_execution_success = "raised"
    THEN ExceptClause(steps \o <<Finished(success)>>, calls)
    ELSE [status |-> "ok", result |-> success,
          steps |-> steps \o <<Finished(success)>>, calls |-> calls]

\* a run that start_execution ended before its try block
NotStarted ==
    [status |-> "raised", result |-> FALSE, steps |-> <<Started>>,
     calls |-> {"start_execution"}]

\* full_etl_workflow(start_date, end_date): df_incidents is the frame the
\* incident extractor returns and ref the run of
\* sync_reference_data_from_incidents on it
full_etl_workflow(df_incidents, ref) ==
    LET extract == Step("extract_data", "incident", "ok", <<>>, df_incidents)
        save    == SaveAndReport("incident", df_incidents)
        sync    == Step("sync_reference_data_from_incidents", "incident",
                        IF ref.result THEN "true" ELSE "false", <<>>,
                        df_incidents)
    IN  IF start_execution = "raised" THEN NotStarted
        ELSE IF df_incidents = <<>>
        THEN FinishAndReturn(TRUE, <<Started, extract>>,
                             {"start_execution", "extract_data"})
        ELSE IF save.raised
        THEN ExceptClause(<<Started, extract>> \o save.steps,
                          {"start_execution", "extract_data", "_save_df"})
        ELSE FinishAndReturn(ref.result,
                             <<Started, extract>> \o save.steps \o <<sync>>
                             \o ref.steps,
                             {"start_execution", "extract_data", "_save_df",
                              "sync_reference_data_from_incidents"}
                             \cup ref.calls)

\* quick_incident_sync(days_back): references is the run of
\* sync_reference_data(force_full_sync=False), whose answer is dropped, and
\* incidents the run of extract_incidents(start_date, end_date)
quick_incident_sync(references, incidents) ==
    IF start_execution = "raised" THEN NotStarted
    ELSE FinishAndReturn(incidents.result,
                         <<Started>> \o references.steps \o incidents.steps,
                         {"start_execution", "sync_reference_data",
                          "extract_incidents"}
                         \cup references.calls \cup incidents.calls)

\* the sync-ref command of main: references is the run of
\* sync_reference_data(force_full_sync=force_full); the except clause of the
\* command returns nothing
sync_ref_command(references) ==
    IF start_execution = "raised" THEN NotStarted
    ELSE FinishAndReturn(references.result, <<Started>> \o references.steps,
                         {"start_execution", "sync_reference_data"}
                         \cup references.calls)

\* what a run of the orchestrator did, and whether it returned or raised
Ran(op, force, r) ==
    [Orchestrated(op, force, r) EXCEPT !.status = r.status]

FullEtlWorkflow ==
    /\ ret = NoCall
    /\ \E df_incidents \in IncidentTables :
       \E ref \in FromIncidentsRuns(df_incidents) :
          ret' = Ran("full_etl_workflow", FALSE,
                     full_etl_workflow(df_incidents, ref))
    /\ UNCHANGED <<kind, now, ticks, source, updates, db, rec1, rec2, edits,
                   tag1, tag2, arg1, arg2, incident, json_table>>

QuickIncidentSync ==
    /\ ret = NoCall
    /\ \E recent \in IncidentTables : \E df_incidents \in IncidentTables :
       \E ref \in FromIncidentsRuns(recent) :
          ret' = Ran("quick_incident_sync", FALSE,
                     quick_incident_sync(
                         sync_reference_data(FALSE, recent, ref),
                         extract_incidents(df_incidents)))
    /\ UNCHANGED <<kind, now, ticks, source, updates, db, rec1, rec2, edits,
                   tag1, tag2, arg1, arg2, incident, json_table>>

SyncRefCommand ==
    /\ ret = NoCall
    /\ \E force_full \in BOOLEAN : \E recent \in IncidentTables :
       \E ref \in FromIncidentsRuns(recent) :
          ret' = Ran("sync-ref", force_full,
                     sync_ref_command(
                         sync_reference_data(force_full, recent, ref)))
    /\ UNCHANGED <<kind, now, ticks, source, updates, db, rec1, rec2, edits,
                   tag1, tag2, arg1, arg2, incident, json_table>>

OrchNext ==
    \/ SyncFromIncidents
    \/ ExtractIncidents
    \/ SyncSpecificCompanies
    \/ SyncReferenceData
    \/ FullEtlWorkflow
    \/ QuickIncidentSync
    \/ SyncRefCommand
    \/ ExtractData
    \/ ExtractIncremental
    \/ FindGap
    \/ GetByIds
    \/ SyncMissing
    \/ SaveDataframes
    \/ Discard

SpecOrch == SyncInit /\ [][OrchNext]_vars

----------------------------------------------------------------------------
(* C17: a save that does not succeed is surfaced *)

\* the operations of the orchestrator the claim names
SavingOps ==
    {"extract_incidents", "sync_reference_data_from_incidents",
     "sync_specific_companies"}

\* the saves of the call that did not succeed: the store answered False, or
\* the call raised
FailedSaves ==
    {i \in 1..Len(ret.steps) :
        ret.steps[i].do = "save" /\ ret.steps[i].res # "true"}

\* the call printed that the records of the table were saved
ReportedSaved(table) ==
    \E i \in 1..Len(ret.steps) :
       ret.steps[i].do = "report_saved" /\ ret.steps[i].table = table

----------------------------------------------------------------------------
(* C18: the resolver of missing references is a path of its own *)

\* find_gap and resolve_gap: get_missing_*_ids_from_incidents, get_*_by_ids
ResolverMethods == {"get_missing_ids", "get_by_ids"}

\* the operations that reach them: sync_missing_users /
\* sync_missing_companies and the incident-driven sync of the orchestrator,
\* alone or as the incremental branch of sync_reference_data
ResolverCallers ==
    {"sync_missing", "sync_reference_data_from_incidents", "sync_reference_data"}

\* C18: a call of extract_data, full or incremental, calls neither
\* get_missing_*_ids_from_incidents nor get_*_by_ids: it looks up no gap and
\* fetches no batch of ids; a call that does reach one of the two is a call
\* of the method itself, of sync_missing_* or of the incident-driven sync
\* of the orchestrator
C18_ResolverSeparatePath ==
    ret # NoCall =>
       /\ ret.op \in {"extract_data", "_extract_incremental"} =>
             /\ ret.calls \cap ResolverMethods = {}
             /\ ret.gap = {}
             /\ ret.fetches = <<>>
             /\ ret.ids = <<>>
       /\ ret.calls \cap ResolverMethods # {} =>
             ret.op \in ResolverMethods \cup ResolverCallers

\* a full extract_data has returned rows while the store holds incidents
\* that refer to an id the reference table lacks
C18_Witness ==
    /\ Called("extract_data")
    /\ ret.path = "full"
    /\ ret.out # <<>>
    /\ get_missing_ids(kind, incident, db, FALSE) # {}

----------------------------------------------------------------------------
(* C19: sync_reference_data, full or driven by the recent incidents *)

\* the call fetched the records of the table, and the fetch did not raise
FetchedAt(i, table) ==
    /\ ret.steps[i].do \in {"get_all_companies", "get_all_users", "get_by_ids"}
    /\ ret.steps[i].table = table
    /\ ret.steps[i].res = "ok"

\* the call handed a frame to the store for the table
SavedAt(i, table) ==
    ret.steps[i].do = "save" /\ ret.steps[i].table = table

\* the ids the incidents the call fetched refer to
IncidentIdsOf(steps) ==
    UNION {ColumnIds(steps[i].df, {"company"} \cup UserColumns) :
              i \in {j \in 1..Len(steps) : steps[j].do = "extract_data"}}

\* C19: sync_reference_data(force_full_sync=True) fetches all companies,
\* then all users, and returns True when no step fails; with
\* force_full_sync=False every id it fetches is referenced by the incidents
\* it has just extracted
C19_ReferenceSync ==
    Called("sync_reference_data") =>
       IF ret.force
       THEN /\ \E i, j \in 1..Len(ret.steps) :
                  i < j /\ FetchedAt(i, "sys_company") /\ FetchedAt(j, "sys_user")
            /\ (\A i \in 1..Len(ret.steps) : ret.steps[i].res # "raised")
                  => ret.result
       ELSE \A i \in 1..Len(ret.steps) :
               ret.steps[i].do = "get_by_ids" =>
                  Elements(ret.steps[i].ids) \subseteq IncidentIdsOf(ret.steps)

----------------------------------------------------------------------------
(* JSONDataManager: the table servicenow_data_json *)

\* how many rows the runs let servicenow_data_json hold
MaxJsonRows == 2

\* date.today() at instant t, and the day a "YYYY-MM-DD" text names: both
\* as the number of the day
Today(t) == t \div TicksPerDay
DateStr(day) == [ty |-> "str", s |-> "date", n |-> day]

\* datetime.isoformat(): a text that keeps the whole instant
IsoFormat(t) == [ty |-> "str", s |-> "iso", n |-> t]

\* _json_serializer, applied by json.dumps to what it cannot encode
json_serializer(obj) == IF obj.ty = "datetime" THEN IsoFormat(obj.n) ELSE obj

\* a record as json.dumps writes it: every value it cannot encode replaced
DumpRecord(record) ==
    [i \in 1..Len(record) |-> Entry(record[i].k, json_serializer(record[i].v))]

\* {k: v for k, v in record.items() if v is not None}
RECURSIVE CleanFrom(_, _)
CleanFrom(record, i) ==
    IF i > Len(record) THEN <<>>
    ELSE (IF record[i].v # NoneV THEN <<record[i]>> ELSE <<>>)
         \o CleanFrom(record, i + 1)

\* sum(len(df) for df in dataframes.values())
RECURSIVE TotalRecords(_, _)
TotalRecords(dataframes, i) ==
    IF i > Len(dataframes) THEN 0
    ELSE Len(dataframes[i].v) + TotalRecords(dataframes, i + 1)

\* the loop of prepare_servicenow_data: one entry for each frame with rows
RECURSIVE PreparedTables(_, _)
PreparedTables(dataframes, i) ==
    IF i > Len(dataframes) THEN <<>>
    ELSE LET df == dataframes[i].v
             cleaned_records == [j \in 1..Len(df) |-> CleanFrom(df[j], 1)]
         IN  (IF df # <<>>
              THEN <<Entry(dataframes[i].k,
                           [count |-> Len(cleaned_records),
                            records |-> cleaned_records])>>
              ELSE <<>>)
             \o PreparedTables(dataframes, i + 1)

\* prepare_servicenow_data(dataframes) at instant t
prepare_servicenow_data(dataframes, t) ==
    [metadata |-> [extraction_timestamp |-> IsoFormat(t),
                   table_count |-> Len(dataframes),
                   total_records |-> TotalRecords(dataframes, 1)],
     data |-> PreparedTables(dataframes, 1)]

\* compact_json_data: the JSON text of the prepared data
compact_json_data(data) ==
    [ty |-> "json",
     of |-> [data EXCEPT !.data =
                [i \in 1..Len(data.data) |->
                    Entry(data.data[i].k,
                          [data.data[i].v EXCEPT !.records =
                              [j \in 1..Len(@) |-> DumpRecord(@[j])]])]]]

\* json.loads of a JSON text
json_loads(json_string) == json_string.of

\* gzip.compress of the encoded text, and gzip.decompress decoded
compress_data(json_string) == [ty |-> "gzip", of |-> json_string]
decompress_data(compressed_data) == compressed_data.of

\* the rows a DELETE with the given condition leaves
RECURSIVE DeleteWhere(_, _, _, _, _, _)
DeleteWhere(rows, branch, start_date, end_date, extraction_type, data_extraction) ==
    IF rows = <<>> THEN <<>>
    ELSE LET r    == Head(rows)
             hit  == CASE branch = "period" ->
                             /\ r.start_date = start_date
                             /\ r.end_date = end_date
                             /\ r.extraction_type = extraction_type
                       [] branch = "backlog" -> r.extraction_type = "backlog"
                       [] OTHER ->
                             /\ r.data_extraction = data_extraction
                             /\ r.extraction_type = extraction_type
         IN  (IF hit THEN <<>> ELSE <<r>>)
             \o DeleteWhere(Tail(rows), branch, start_date, end_date,
                            extraction_type, data_extraction)

\* data_extraction = date.today()
ExtractionDay(start_date, t) == Today(t)

\* save_json_data_to_db at instant t on the rows of the table, in the order
\* they were inserted; dbFails: the connection or a statement raises, and
\* the transaction is rolled back
save_json_data_to_db(rows, dataframes, extraction_type, start_date, end_date, t, dbFails) ==
    LET prepared_data   == prepare_servicenow_data(dataframes, t)
        json_string     == compact_json_data(prepared_data)
        compressed_data == compress_data(json_string)
        data_extraction == ExtractionDay(start_date, t)
        branch          == IF start_date # NoneV /\ end_date # NoneV THEN "period"
                           ELSE IF extraction_type = "backlog" THEN "backlog"
                           ELSE "day"
        row             == [data_extraction |-> data_extraction,
                            extraction_type |-> extraction_type,
                            start_date |-> start_date, end_date |-> end_date,
                            data_json |-> json_string,
                            data_compressed |-> compressed_data,
                            record_count |-> prepared_data.metadata.total_records]
    IN  IF dbFails
        THEN [result |-> FALSE, rows |-> rows, payload |-> prepared_data]
        ELSE [result |-> TRUE,
              rows |-> Append(DeleteWhere(rows, branch, start_date, end_date,
                                          extraction_type, data_extraction),
                              row),
              payload |-> prepared_data]

\* load_json_data_from_db(data_extraction, extraction_type): the row of the
\* day and the type that was created last, decompressed and parsed; None
\* when there is none or the lookup raises
load_json_data_from_db(rows, data_extraction, extraction_type, dbFails) ==
    LET found == {i \in 1..Len(rows) :
                     /\ rows[i].data_extraction = data_extraction.n
                     /\ rows[i].extraction_type = extraction_type}
        result == rows[CHOOSE i \in found : \A j \in found : j <= i]
    IN  IF dbFails \/ found = {} THEN NoneV
        ELSE json_loads(decompress_data(result.data_compressed))

\* the frames handed to the storage: no table; one table with rows and one
\* without; rows that hold a None and a datetime
JsonFrames ==
    {<<>>,
     <<Entry("incident", <<<<Entry("sys_id", Str("INC001")),
                             Entry("closed_at", NoneV)>>,
                           <<Entry("sys_id", Str("INC002")),
                             Entry("closed_at", TsStr(1))>>>>),
       Entry("task", <<>>)>>,
     <<Entry("sys_user", <<<<Entry("sys_id", Str("a")),
                             Entry("etl_created_at", DateTime(T0))>>>>)>>}

ExtractionTypes == {"test", "backlog"}

\* the days the periods and the lookups name
JsonDays == {Today(T0) + d : d \in 0..MaxTicks}

\* start_date and end_date of a save: none, or one day for both
JsonPeriods == {<<NoneV, NoneV>>} \cup {<<DateStr(d), DateStr(d)>> : d \in JsonDays}

SaveJson ==
    /\ ret = NoCall
    /\ Len(json_table) < MaxJsonRows
    /\ \E dataframes \in JsonFrames, extraction_type \in ExtractionTypes,
          period \in JsonPeriods, dbFails \in BOOLEAN :
          LET r == save_json_data_to_db(json_table, dataframes, extraction_type,
                                        period[1], period[2], now, dbFails)
          IN  /\ json_table' = r.rows
              /\ ret' = [Outcome EXCEPT
                            !.op = "save_json_data_to_db",
                            !.result = r.result,
                            !.args = <<dataframes, extraction_type,
                                       period[1], period[2]>>,
                            !.payload = r.payload]
    /\ UNCHANGED <<kind, now, ticks, source, updates, db, rec1, rec2, edits,
                   tag1, tag2, arg1, arg2, incident>>

\* a load, at any moment or right after a save
LoadJson ==
    /\ ret = NoCall \/ ret.op = "save_json_data_to_db"
    /\ \E day \in JsonDays, extraction_type \in ExtractionTypes, dbFails \in BOOLEAN :
          ret' = [Outcome EXCEPT
                     !.op = "load_json_data_from_db",
                     !.args = <<DateStr(day), extraction_type>>,
                     !.loaded = load_json_data_from_db(
                                    json_table, DateStr(day), extraction_type,
                                    dbFails)]
    /\ UNCHANGED <<kind, now, ticks, source, updates, db, rec1, rec2, edits,
                   tag1, tag2, arg1, arg2, incident, json_table>>

\* a day passes
JsonTick ==
    /\ ret = NoCall
    /\ ticks < MaxTicks
    /\ now' = now + TicksPerDay
    /\ ticks' = ticks + 1
    /\ UNCHANGED <<kind, source, updates, db, ret, rec1, rec2, edits, tag1, tag2,
                   arg1, arg2, incident, json_table>>

JsonNext ==
    \/ SaveJson
    \/ LoadJson
    \/ JsonTick
    \/ Discard

SpecJson == Init /\ [][JsonNext]_vars

\* C20: right after save_json_data_to_db has succeeded for the type T with
\* start_date = end_date = D, load_json_data_from_db(D, T) returns the
\* payload that was saved: the same tables with the same counts and the
\* same total_records, equal to the prepared data
C20_JsonRoundTrip ==
    (/\ Called("save_json_data_to_db")
     /\ ret.result
     /\ ret.args[3] # NoneV
     /\ ret.args[3] = ret.args[4])
    => LET loaded_data == load_json_data_from_db(json_table, ret.args[3],
                                                 ret.args[2], FALSE)
       IN  /\ loaded_data # NoneV
           /\ loaded_data.metadata = ret.payload.metadata
           /\ [i \in 1..Len(loaded_data.data) |->
                  <<loaded_data.data[i].k, loaded_data.data[i].v.count>>]
              = [i \in 1..Len(ret.payload.data) |->
                  <<ret.payload.data[i].k, ret.payload.data[i].v.count>>]

----------------------------------------------------------------------------
(* C21: the watermark over sequences of syncs that are saved *)

\* get_companies_by_type("customer") at instant t: the rows that answer
\* "customer=true^active=true", tagged
get_companies_by_type(src, t, failAt) ==
    LET companies == paginated_request(QueryActive("company", src), PageLimit, failAt)
    IN  IF companies # <<>>
        THEN DataFrame(ProcessAndHash("company", companies, t))
        ELSE DataFrame(<<>>)

\* save_dataframes_to_database on a frame, when the store succeeds: an
\* empty frame is skipped
Saved(table, df) == IF df = <<>> THEN table ELSE Upsert(table, df, 1)

\* a full sync whose requests all succeed, and the save of its result
FullSyncSaved ==
    /\ ret = NoCall
    /\ db' = Saved(db, extract_all(kind, source, source, now, 0, 0).out)
    /\ UNCHANGED <<kind, now, ticks, source, updates, ret, rec1, rec2, edits,
                   tag1, tag2, arg1, arg2, incident, json_table>>

\* an incremental sync whose requests and lookups all succeed, and the save
\* of its result
IncrementalSyncSaved ==
    /\ ret = NoCall
    /\ db' = Saved(db, extract_incremental(kind, source, db, now, FALSE, 0,
                                           FALSE, 0).out)
    /\ UNCHANGED <<kind, now, ticks, source, updates, ret, rec1, rec2, edits,
                   tag1, tag2, arg1, arg2, incident, json_table>>

\* get_*_by_ids on some ids of the remote table, and the save of its result
BackFillSaved ==
    /\ ret = NoCall
    /\ \E ids_list \in ListsOf(Ids, Cardinality(Ids)) :
          /\ ids_list # <<>>
          /\ db' = Saved(db, get_by_ids(kind, source, ids_list, now, 0, 0).out)
    /\ UNCHANGED <<kind, now, ticks, source, updates, ret, rec1, rec2, edits,
                   tag1, tag2, arg1, arg2, incident, json_table>>

\* get_companies_by_type, and the save of its result
ByTypeSaved ==
    /\ ret = NoCall
    /\ kind = "company"
    /\ db' = Saved(db, get_companies_by_type(source, now, 0))
    /\ UNCHANGED <<kind, now, ticks, source, updates, ret, rec1, rec2, edits,
                   tag1, tag2, arg1, arg2, incident, json_table>>

WatermarkNext ==
    \/ FullSyncSaved
    \/ IncrementalSyncSaved
    \/ BackFillSaved
    \/ ByTypeSaved
    \/ Tick
    \/ SourceUpdate

SpecWatermark == Init /\ [][WatermarkNext]_vars

\* the fingerprint the current version of a remote record gets
CurrentHash(id) ==
    Get(ProcessAndHashOne(kind, Fetched(kind, source, id), now), "etl_hash")

\* the reference table holds the current version of the remote record
CurrentPersisted(id) == db[id].present /\ db[id].etl_hash = CurrentHash(id)

\* C21: in every state reached by full syncs, incremental syncs, back-fills
\* by id and by-type syncs, each saved, and by updates of the remote table,
\* every remote record last updated before the watermark the next
\* incremental sync computes has its current version in the reference table
C21_WatermarkSound ==
    \A id \in Ids :
       source[id].upd < get_last_sync_date(kind, db, now, FALSE)
          => CurrentPersisted(id)

----------------------------------------------------------------------------
(* C22: an incremental sync that is saved and repeated at once *)

\* the incremental sync has returned: the reference table once its result
\* is saved, and the same sync run again one tick later on the same remote
\* table, its lookups succeeding and request number failAt failing
AfterSave == Saved(db, ret.out)
Repeated(failAt) ==
    extract_incremental(kind, source, AfterSave, now + 1, FALSE, failAt, FALSE, 0)

\* the requests of the repeated sync that can fail
RepeatFailPoints ==
    FailPoints(QueryUpdatedSince(kind, source,
                                 get_last_sync_date(kind, AfterSave, now + 1, FALSE)),
               PageLimit)

\* C22 as stated: an incremental sync, saved and repeated at once on an
\* unchanged remote table with its lookups succeeding, returns nothing
C22_Original ==
    Called("_extract_incremental") =>
       \A failAt \in RepeatFailPoints : Repeated(failAt).out = <<>>

\* C22, amended: the repeated sync returns none of the records the first
\* one returned and had saved, and it returns nothing at all when the
\* watermark lookup and every page request of the first sync succeeded
C22_NoOpSuppressed ==
    Called("_extract_incremental") =>
       \A failAt \in RepeatFailPoints :
          /\ SysIds(Repeated(failAt).out) \cap SysIds(ret.out) = {}
          /\ (~ret.wmFails /\ ~ret.netFail) => Repeated(failAt).out = <<>>

\* a first sync with no failure has returned rows, and the repeated one
\* fetches them again
C22_Witness ==
    /\ Called("_extract_incremental")
    /\ ~ret.wmFails /\ ~ret.netFail
    /\ ret.out # <<>>
    /\ SysIds(Repeated(0).modified) \cap SysIds(ret.out) # {}

----------------------------------------------------------------------------
(* C23: paginated_request, one request at a time *)

\* how many requests one call is followed for
MaxPages == 4

\* the remote tables a call pages through: the rows of some of the ids
PagedRows == {QueryFrom(kind, source, selected, 1) : selected \in SUBSET Ids}

\* the remotes: one that honours sysparm_offset, and one that answers
\* every request with its first page
Remotes == {"paged", "ignores_offset"}

\* the answer to self.make_request(endpoint, params) with the given offset
Answer(remote, rows, limit, offset, fails) ==
    IF remote = "ignores_offset" THEN make_request(rows, limit, 0, fails)
    ELSE make_request(rows, limit, offset, fails)

\* a plausible slip: the offset is not advanced
NextOffsetUnchanged(offset, limit) == offset

\* offset += limit
NextOffset(offset, limit) == offset + limit

\* all_data = []; offset = 0
PageStart ==
    /\ ret = NoCall
    /\ \E rows \in PagedRows, remote \in Remotes :
       \E failAt \in FailPoints(rows, PageLimit) :
          ret' = [op |-> "paginated_request", pc |-> "loop", rows |-> rows,
                  remote |-> remote, failAt |-> failAt, limit |-> PageLimit,
                  offset |-> 0, all_data |-> <<>>, offsets |-> <<>>,
                  pages |-> <<>>]
    /\ UNCHANGED <<kind, now, ticks, source, updates, db, rec1, rec2, edits,
                   tag1, tag2, arg1, arg2, incident, json_table>>

\* one turn of the while loop: the request, and the break or the extend
PageRequest ==
    /\ ret.op = "paginated_request"
    /\ ret.pc = "loop"
    /\ Len(ret.pages) < MaxPages
    /\ LET result_page == Answer(ret.remote, ret.rows, ret.limit, ret.offset,
                                 Len(ret.pages) + 1 = ret.failAt)
       IN  ret' = IF result_page = <<>>
                  THEN [ret EXCEPT !.pc = "done",
                                   !.offsets = Append(@, ret.offset),
                                   !.pages = Append(@, result_page)]
                  ELSE [ret EXCEPT !.offsets = Append(@, ret.offset),
                                   !.pages = Append(@, result_page),
                                   !.all_data = @ \o result_page,
                                   !.offset = NextOffset(@, ret.limit)]
    /\ UNCHANGED <<kind, now, ticks, source, updates, db, rec1, rec2, edits,
                   tag1, tag2, arg1, arg2, incident, json_table>>

\* return all_data
PageReturn ==
    /\ ret.op = "paginated_request"
    /\ ret.pc = "done"
    /\ ret' = NoCall
    /\ UNCHANGED <<kind, now, ticks, source, updates, db, rec1, rec2, edits,
                   tag1, tag2, arg1, arg2, incident, json_table>>

PageNext ==
    \/ PageStart
    \/ PageRequest
    \/ PageReturn

SpecPage == Init /\ [][PageNext]_vars

\* C23: the requests of paginated_request are issued at the offsets 0,
\* limit, 2*limit, ... in that order; every page before the last is not
\* empty and all_data is the pages so far in request order; the call has
\* ended exactly when some request was answered with an empty page, that
\* page being the last one; and an empty first page gives an empty result.
\* Against a remote that honours the offset the result is the one
\* paginated_request computes.
C23_OnePageAtATime ==
    ret.op = "paginated_request" =>
       /\ Len(ret.offsets) = Len(ret.pages)
       /\ \A i \in 1..Len(ret.offsets) : ret.offsets[i] = (i - 1) * ret.limit
       /\ \A i \in 1..(Len(ret.pages) - 1) : ret.pages[i] # <<>>
       /\ ret.all_data = Concat(ret.pages)
       /\ ret.pc = "done" <=> \E i \in 1..Len(ret.pages) : ret.pages[i] = <<>>
       /\ (ret.pc = "done" /\ Len(ret.pages) = 1) => ret.all_data = <<>>
       /\ (ret.pc = "done" /\ ret.remote = "paged")
             => ret.all_data = paginated_request(ret.rows, ret.limit, ret.failAt)

\* a call has ended after two pages with rows and an empty one
C23_Witness ==
    /\ ret.op = "paginated_request"
    /\ ret.pc = "done"
    /\ Len(ret.pages) = 3
    /\ Len(ret.all_data) = 2

----------------------------------------------------------------------------
(* C24: the order of the steps of full_etl_workflow *)

\* the positions of the steps of the call that did the thing named
StepsThat(do) == {i \in 1..Len(ret.steps) : ret.steps[i].do = do}

\* the frame of incidents the call extracted, or the empty frame
Extracted ==
    IF StepsThat("extract_data") = {} THEN <<>>
    ELSE ret.steps[CHOOSE i \in StepsThat("extract_data") : TRUE].df

\* a save of the incidents that succeeded comes before the step
IncidentsSavedBefore(j) ==
    \E i \in 1..(j - 1) :
       /\ ret.steps[i].do = "save"
       /\ ret.steps[i].table = "incident"
       /\ ret.steps[i].res = "true"

\* C24: full_etl_workflow returns, having extracted the incidents; every
\* reference fetch comes after the incidents were saved and asks only for
\* ids the extracted incidents refer to; with no incident the workflow
\* returns True and fetches and saves no user and no company; otherwise it
\* returns what the reference sync returned
C24_WorkflowInOrder ==
    Called("full_etl_workflow") =>
       /\ ret.status = "ok"
       /\ StepsThat("extract_data") # {}
       /\ \A j \in StepsThat("get_by_ids") :
             /\ IncidentsSavedBefore(j)
             /\ Elements(ret.steps[j].ids) \subseteq
                   ColumnIds(Extracted, {"company"} \cup UserColumns)
       /\ Extracted = <<>> =>
             /\ ret.result
             /\ StepsThat("get_by_ids") = {}
             /\ \A i \in StepsThat("save") : ret.steps[i].table = "incident"
       /\ Extracted # <<>> =>
             \E i \in StepsThat("sync_reference_data_from_incidents") :
                ret.result = (ret.steps[i].res = "true")

----------------------------------------------------------------------------
(* C25: every run of the orchestrator is logged once and returns *)

\* the runs the claim names
RunOps == {"full_etl_workflow", "quick_incident_sync", "sync-ref"}

\* the calls of finish_execution the run made that did not raise
FinishedWith(success) ==
    {i \in StepsThat(Finished(success).do) : ret.steps[i].res # "raised"}

\* C25: a run starts its entry of the execution log, finishes it exactly
\* once, with success=True exactly when the run returns True, and returns
\* instead of raising
C25_RunLoggedOnce ==
    ret.op \in RunOps =>
       /\ ret.status = "ok"
       /\ \E i \in StepsThat("start_execution") : ret.steps[i].res # "raised"
       /\ Cardinality(FinishedWith(TRUE) \cup FinishedWith(FALSE)) = 1
       /\ (FinishedWith(TRUE) # {}) = ret.result

----------------------------------------------------------------------------
(* The legacy commands of main and the execution log *)

\* None, in a field of the execution log that holds text
Unset == "<None>"

\* ExecutionLogger(): the entry of a run that has just begun
ExecutionLogger ==
    [execution_type |-> Unset, status |-> "running", error_message |-> Unset,
     ended_at |-> -1, json_storage_enabled |-> FALSE]

set_execution_params(log, execution_type, json_enabled) ==
    [log EXCEPT !.execution_type = execution_type,
                !.json_storage_enabled = json_enabled]

set_error(log, error_message) ==
    [log EXCEPT !.status = "failed", !.error_message = error_message]

set_success(log) == [log EXCEPT !.status = "success"]

\* finish_execution(): the entry gets the instant it ended
finish_execution(log, t) == [log EXCEPT !.ended_at = t]

\* save_to_database(): the entry is inserted into servicenow_execution_log,
\* unless the connection or the insert fails; the exception is caught
save_to_database(log, table, connFails) ==
    IF connFails THEN table ELSE Append(table, log)

\* print_execution_summary(): data['execution_type'].upper() raises
\* AttributeError on an entry whose type was never set
print_execution_summary(log) ==
    IF log.execution_type = Unset THEN "raised" ELSE "ok"

\* the commands main runs under an ExecutionLogger, and one it does not know
LegacyCommands ==
    {"config", "daily", "backlog", "range", "today", "yesterday", "unknown"}

\* the arguments after the command: the two dates of range given and valid,
\* one of them missing, or one of them not a date
ArgForms == {"given", "missing", "bad_date"}

\* how the method of ServiceNowETL a command runs can end: it returns True
\* or False, raises, or is interrupted from the keyboard; run_full_etl
\* catches every Exception and returns False
CommandEnds(command) ==
    IF command \in {"config", "daily"}
    THEN {"true", "false", "raised", "interrupted"}
    ELSE {"true", "false", "interrupted"}

\* the two except clauses of main
Caught(log, how) ==
    IF how = "interrupted"
    THEN set_error(log, "Execução cancelada pelo usuário")
    ELSE set_error(log, "Erro inesperado")

\* the try block of main: built says how ServiceNowETL(...) ended and end
\* how the command did; a command main does not know, and a range without
\* two valid dates, return before the type of the execution is set
TryBlock(log, command, args, enable_json, built, end) ==
    IF built # "ok" THEN Caught(log, built)
    ELSE IF command = "unknown" THEN log
    ELSE IF command = "range" /\ args # "given" THEN log
    ELSE LET params == set_execution_params(log, command, enable_json)
         IN  IF end = "true" THEN set_success(params)
             ELSE IF end = "false" THEN set_error(params, "Execução falhou")
             ELSE Caught(params, end)

\* the command ran and returned success
ReturnedSuccess(command, args, built, end) ==
    /\ built = "ok"
    /\ command # "unknown"
    /\ command = "range" => args = "given"
    /\ end = "true"

\* main() on a legacy command at instant t: the try block, then the finally
\* clause, which finishes, saves and prints the entry
main(command, args, enable_json, built, end, connFails, t) ==
    LET log == finish_execution(
                   TryBlock(ExecutionLogger, command, args, enable_json,
                            built, end), t)
    IN  [op |-> "main", command |-> command, args |-> args,
         success |-> ReturnedSuccess(command, args, built, end),
         log |-> log,
         servicenow_execution_log |-> save_to_database(log, <<>>, connFails),
         calls |-> <<"finish_execution", "save_to_database",
                     "print_execution_summary">>,
         status |-> print_execution_summary(log)]

Main ==
    /\ ret = NoCall
    /\ \E command \in LegacyCommands, args \in ArgForms, enable_json \in BOOLEAN :
       \E built \in {"ok", "raised", "interrupted"}, connFails \in BOOLEAN :
       \E end \in CommandEnds(command) :
          ret' = main(command, args, enable_json, built, end, connFails, now)
    /\ UNCHANGED <<kind, now, ticks, source, updates, db, rec1, rec2, edits,
                   tag1, tag2, arg1, arg2, incident, json_table>>

MainNext == Main \/ Tick \/ Discard

SpecMain == Init /\ [][MainNext]_vars

----------------------------------------------------------------------------
(* C26: the execution log of a legacy command is always finalized *)

\* the call of the logger was made exactly once
CalledOnce(method) ==
    Cardinality({i \in 1..Len(ret.calls) : ret.calls[i] = method}) = 1

\* C26: whatever the legacy command and however it ends, finish_execution,
\* save_to_database and print_execution_summary each run exactly once, and
\* the entry saved has the status success when the command returned
\* success and failed otherwise
C26_LogFinalized ==
    Called("main") =>
       /\ CalledOnce("finish_execution")
       /\ CalledOnce("save_to_database")
       /\ CalledOnce("print_execution_summary")
       /\ \A i \in 1..Len(ret.servicenow_execution_log) :
             ret.servicenow_execution_log[i].status =
                IF ret.success THEN "success" ELSE "failed"

----------------------------------------------------------------------------
(* C27: sync_reference_data reports the failure of a step *)

\* the steps of the call that raised: a fetch, a save, or the reading of
\* the ids of the incidents
RaisedSteps == {i \in 1..Len(ret.steps) : ret.steps[i].res = "raised"}

\* C27: when a step of the reference sync fails, so that in incremental
\* mode sync_reference_data_from_incidents returns False,
\* sync_reference_data does not return True
C27_FailureReturned ==
    (Called("sync_reference_data") /\ RaisedSteps # {}) => ~ret.result

----------------------------------------------------------------------------
(* C28: a gap lookup that fails reads as no gap *)

\* C28: when the lookup of the store fails, get_missing_*_ids_from_incidents
\* returns the empty set instead of raising, and sync_missing_* then issues
\* no fetch request and returns an empty result
C28_FailedLookupIsNoGap ==
    /\ (Called("get_missing_ids") /\ ret.gapFails)
          => (ret.gap = {} /\ ret.status = "ok")
    /\ (Called("sync_missing") /\ ret.gapFails)
          => (ret.gap = {} /\ NothingFetched)

\* sync_missing_* ran over a store with a gap, and its lookup failed
C28_Witness ==
    /\ Called("sync_missing")
    /\ ret.gapFails
    /\ StoreGap # {}
    /\ ret.out = <<>>

----------------------------------------------------------------------------
(* Runs of the Entity Hasher over lists of fetched records *)

\* the longest list of records a run tags
MaxRecords == 2

\* the lists a fetch can hand to the pass: records of the kind, and the
\* empty mapping
FetchedLists ==
    UNION {[1..n -> HashInputs(kind) \cup {<<>>}] : n \in 0..MaxRecords}

\* _process_and_hash_users / _process_and_hash_companies, as a call that
\* returns or raises: process_data([user]) is empty for an empty mapping,
\* and its [0] raises IndexError
process_and_hash(k, records, t) ==
    IF \E i \in 1..Len(records) : TagRaises(records[i])
    THEN [op |-> "process_and_hash", status |-> "raised", out |-> <<>>]
    ELSE [op |-> "process_and_hash", status |-> "ok",
          out |-> ProcessAndHash(k, records, t)]

TagListInit ==
    /\ kind \in Kinds
    /\ now = T0
    /\ ticks = 0
    /\ source = <<>>
    /\ updates = 0
    /\ db = <<>>
    /\ ret = NoCall
    /\ rec1 = <<>>
    /\ rec2 = <<>>
    /\ edits = 0
    /\ tag1 = Untagged
    /\ tag2 = Untagged
    /\ arg1 \in FetchedLists
    /\ arg2 = <<>>
    /\ incident = <<>>
    /\ json_table = <<>>

\* one pass over the list arg1, gap ticks after the last one
TagList ==
    /\ ret = NoCall
    /\ ticks < MaxTicks
    /\ \E gap \in TagGaps :
          /\ now' = now + gap
          /\ ret' = process_and_hash(kind, arg1, now + gap)
    /\ ticks' = ticks + 1
    /\ UNCHANGED <<kind, source, updates, db, rec1, rec2, edits, tag1, tag2,
                   arg1, arg2, incident, json_table>>

TagListNext == TagList \/ Discard

SpecTagList == TagListInit /\ [][TagListNext]_vars

----------------------------------------------------------------------------
(* C29: tagging is total and keeps the length of the list *)

\* the fingerprint of the non-excluded fields of a fetched record
OwnFingerprint(record) ==
    Md5(DataString(HashData(NormalizeBools(kind,
                                           flatten_reference_fields(record)))))

\* C29: for every list of fetched records, a record that is an empty
\* mapping included, _process_and_hash_* returns without raising one tagged
\* record per record of the list, in the order of the list, each with the
\* etl_hash of its own non-excluded fields
C29_TaggingTotal ==
    Called("process_and_hash") =>
       /\ ret.status = "ok"
       /\ Len(ret.out) = Len(arg1)
       /\ \A i \in 1..Len(ret.out) :
             /\ Get(ret.out[i], "etl_hash") = OwnFingerprint(arg1[i])
             /\ arg1[i] # <<>> =>
                   Get(ret.out[i], "sys_id") = Get(arg1[i], "sys_id")

----------------------------------------------------------------------------
(* The store, row by row: the MERGE of save_dataframes_to_database *)

\* the longest frame a run saves
MaxFrameRows == 2

\* the columns of the frames of a run: a table of references, whose first
\* column is its key, and a table with a column named id
Schemas == {<<"sys_id", "name">>, <<"name", "id">>}

\* one row of a frame with the columns given, in their order
FrameRow(columns, key, name) ==
    [i \in 1..Len(columns) |->
        Entry(columns[i], IF columns[i] = "name" THEN Str(name) ELSE Str(key))]

\* the frames of at most MaxFrameRows rows over two keys and two names; a
\* frame may hold a key twice
StoreFrames(columns) ==
    UNION {[1..n -> {FrameRow(columns, key, name) :
                        key \in {"a", "b"}, name \in {"Foo", "Bar"}}] :
           n \in 0..MaxFrameRows}

\* ON target.[pk] = source.[pk]: the rows of the table the source row matches
Matched(table, row, pk) ==
    {i \in 1..Len(table) : Get(table[i], pk) = Get(row, pk)}

\* WHEN MATCHED THEN UPDATE SET target.[col] = source.[col] for every column
\* of the frame but the key
RECURSIVE UpdateFrom(_, _, _, _)
UpdateFrom(target, row, pk, i) ==
    IF i > Len(row) THEN target
    ELSE UpdateFrom(IF row[i].k = pk THEN target
                    ELSE SetKey(target, row[i].k, row[i].v),
                    row, pk, i + 1)

\* a plausible slip: the MERGE has no WHEN MATCHED clause and inserts
MergeAlwaysInserts(table, row, pk) == Append(table, row)

\* one MERGE statement: the matched rows are updated, and the source row is
\* inserted when none is
Merge(table, row, pk) ==
    IF Matched(table, row, pk) = {} THEN Append(table, row)
    ELSE [i \in 1..Len(table) |->
             IF i \in Matched(table, row, pk)
             THEN UpdateFrom(table[i], row, pk, 1) ELSE table[i]]

\* for row in df.iter_rows(named=True): one MERGE per row, in order
RECURSIVE MergeRows(_, _, _)
MergeRows(table, df, i) ==
    IF i > Len(df) THEN table
    ELSE MergeRows(Merge(table, df[i], PrimaryKey(df)), df, i + 1)

\* save_dataframes_to_database({table_name: df}) when nothing raises: a
\* frame that is None or empty is skipped, any other is merged row by row
\* and committed
save_dataframes_to_database(table, is_none, df) ==
    IF is_none \/ df = <<>> THEN table ELSE MergeRows(table, df, 1)

\* the table holds no row; arg1 holds the columns of the frames of the run,
\* which are the columns of the table
StoreInit ==
    /\ kind \in Kinds
    /\ now = T0
    /\ ticks = 0
    /\ source = <<>>
    /\ updates = 0
    /\ db = <<>>
    /\ ret = NoCall
    /\ rec1 = <<>>
    /\ rec2 = <<>>
    /\ edits = 0
    /\ tag1 = Untagged
    /\ tag2 = Untagged
    /\ arg1 \in Schemas
    /\ arg2 = <<>>
    /\ incident = <<>>
    /\ json_table = <<>>

\* one call of save_dataframes_to_database on one table: it commits after
\* the last MERGE and returns True, or an exception ends it before the
\* commit and it returns False
SaveFrame ==
    /\ ret = NoCall
    /\ \E is_none \in BOOLEAN, committed \in BOOLEAN :
       \E df \in IF is_none THEN {<<>>} ELSE StoreFrames(arg1) :
          /\ db' = IF committed
                   THEN save_dataframes_to_database(db, is_none, df)
                   ELSE db
          /\ ret' = [op |-> "save_dataframes_to_database", is_none |-> is_none,
                     df |-> df, result |-> committed, before |-> db]
    /\ UNCHANGED <<kind, now, ticks, source, updates, rec1, rec2, edits,
                   tag1, tag2, arg1, arg2, incident, json_table>>

StoreNext == SaveFrame \/ Discard

SpecStore == StoreInit /\ [][StoreNext]_vars

----------------------------------------------------------------------------
(* C30: the saves are upserts by primary key *)

\* the key of the table of the run: the column id if there is one, else
\* the first column
TableKey == IF \E i \in 1..Len(arg1) : arg1[i] = "id" THEN "id" ELSE arg1[1]

\* the rows of a table or of a frame that hold the key value of the row
WithKeyOf(rows, row) ==
    {i \in 1..Len(rows) : Get(rows[i], TableKey) = Get(row, TableKey)}

\* the last row of the frame saved for each of its keys
LastSaved ==
    {i \in 1..Len(ret.df) : \A j \in WithKeyOf(ret.df, ret.df[i]) : j <= i}

\* C30: the table never holds two rows with one key; after a successful
\* save the row of every key of the frame holds the values the frame gave
\* it last, and the rows of the other keys are as they were; saving the
\* frame again changes nothing; an empty frame or None leaves the table as
\* it was
C30_RowLevelUpsert ==
    /\ \A i \in 1..Len(db) : WithKeyOf(db, db[i]) = {i}
    /\ (Called("save_dataframes_to_database") /\ ret.result) =>
          /\ \A i \in LastSaved :
                \E j \in 1..Len(db) : db[j] = ret.df[i]
          /\ \A i \in 1..Len(ret.before) :
                WithKeyOf(ret.df, ret.before[i]) = {} =>
                   \E j \in 1..Len(db) : db[j] = ret.before[i]
          /\ Len(db) = Cardinality({Get(ret.before[i], TableKey) :
                                       i \in 1..Len(ret.before)}
                                   \cup {Get(ret.df[i], TableKey) :
                                            i \in 1..Len(ret.df)})
          /\ save_dataframes_to_database(db, ret.is_none, ret.df) = db
          /\ (ret.is_none \/ ret.df = <<>>) => db = ret.before

\* a save updated the row of a key the table held with another name, and
\* inserted a row for a key it did not hold
C30_Witness ==
    /\ Called("save_dataframes_to_database")
    /\ ret.result
    /\ Len(ret.before) = 1
    /\ Len(db) = 2
    /\ \E i \in 1..Len(ret.df) :
          /\ WithKeyOf(ret.before, ret.df[i]) # {}
          /\ \A j \in WithKeyOf(ret.before, ret.df[i]) :
                ret.before[j] # ret.df[i]

=============================================================================
